---- MODULE Spec2Model ----
(***************************************************************************)
(* A model of the interactive staging tool: the hunk parser, renderer and  *)
(* reassembler and the per-file prompt loop of add-patch.c, and the        *)
(* list-and-choose menu of add-interactive.c.                              *)
(*                                                                         *)
(* A byte is a one-character string, a buffer is a sequence of bytes, and  *)
(* every offset is a C offset (0-based) into its buffer.                   *)
(***************************************************************************)
EXTENDS Integers, Sequences, FiniteSets, TLC

(***************************************************************************)
(* Bounds of the model.                                                    *)
(***************************************************************************)
\* unsigned long and ssize_t are UlongBits wide in the model (64 in the build)
UlongBits == 16
\* hunks per generated file diff in the reassembly specification
MaxGenHunks == 2
\* old_count and new_count of a generated hunk range over 0..MaxCount
MaxCount == 2
\* file diffs per diff in the prompt loop specification
MaxFiles == 2
\* hunks of the first file diff in the prompt loop specification
MaxHunks == 3
\* bytes of a line that the chooser reads
MaxLine == 3

ULONG_MOD == 2 ^ UlongBits
ULONG_MAX == ULONG_MOD - 1

\* the value of an unsigned long expression
ToUlong(x) == x % ULONG_MOD
\* an unsigned long converted to ssize_t
ToSsize(x) == IF ToUlong(x) >= ULONG_MOD \div 2 THEN ToUlong(x) - ULONG_MOD ELSE ToUlong(x)

(***************************************************************************)
(* Bytes and C string helpers.                                             *)
(***************************************************************************)
NUL == "NUL"
LF == "\n"
DigitChars == <<"0", "1", "2", "3", "4", "5", "6", "7", "8", "9">>

isdigit(c) == \E k \in 1..10 : DigitChars[k] = c
DigitVal(c) == (CHOOSE k \in 1..10 : DigitChars[k] = c) - 1
isspace(c) == c \in {" ", "\t", "\n", "\r", "\f", "VT"}

\* buf[off] of a NUL-terminated buffer
At(buf, off) == IF off >= 0 /\ off < Len(buf) THEN buf[off + 1] ELSE NUL
\* the bytes [start, end) of buf
Slice(buf, start, end) == SubSeq(buf, start + 1, end)

starts_with(buf, p, prefix) ==
    \A k \in 1..Len(prefix) : At(buf, p + k - 1) = prefix[k]

\* the offset after prefix, or -1 when buf does not continue with prefix at p
skip_prefix(buf, p, prefix) ==
    IF starts_with(buf, p, prefix) THEN p + Len(prefix) ELSE -1

\* the first offset in [p, p + n) holding c, or -1
RECURSIVE memchr(_, _, _, _)
memchr(buf, p, c, n) ==
    IF n <= 0 THEN -1
    ELSE IF At(buf, p) = c THEN p
    ELSE memchr(buf, p + 1, c, n - 1)

\* the first offset in [p, p + n) where needle starts and fits, or -1
RECURSIVE memmem(_, _, _, _)
memmem(buf, p, n, needle) ==
    IF n < Len(needle) THEN -1
    ELSE IF starts_with(buf, p, needle) THEN p
    ELSE memmem(buf, p + 1, n - 1, needle)

RECURSIVE SkipSpace(_, _)
SkipSpace(buf, p) == IF isspace(At(buf, p)) THEN SkipSpace(buf, p + 1) ELSE p

RECURSIVE ScanDigits(_, _, _)
ScanDigits(buf, p, acc) ==
    IF isdigit(At(buf, p))
    THEN LET v == acc * 10 + DigitVal(At(buf, p))
         IN  ScanDigits(buf, p + 1, IF v > ULONG_MAX THEN ULONG_MAX ELSE v)
    ELSE [val |-> acc, end |-> p]

\* strtoul(buf + p, &end, 10): leading white space, an optional sign, digits
strtoul(buf, p) ==
    LET q == SkipSpace(buf, p)
        s == IF At(buf, q) \in {"+", "-"} THEN q + 1 ELSE q
        r == ScanDigits(buf, s, 0)
    IN  IF r.end = s THEN [val |-> 0, end |-> p]
        ELSE [val |-> IF At(buf, q) = "-" THEN ToUlong(ULONG_MOD - r.val) ELSE r.val,
              end |-> r.end]

\* "%lu"
RECURSIVE fmt_lu(_)
fmt_lu(n) ==
    IF n < 10 THEN <<DigitChars[n + 1]>>
    ELSE fmt_lu(n \div 10) \o <<DigitChars[(n % 10) + 1]>>

RECURSIVE Concat(_)
Concat(ss) == IF ss = <<>> THEN <<>> ELSE Head(ss) \o Concat(Tail(ss))

RECURSIVE Repeat(_, _)
Repeat(s, n) == IF n <= 0 THEN <<>> ELSE s \o Repeat(s, n - 1)

\* strbuf_complete_line
strbuf_complete_line(buf) ==
    IF Len(buf) > 0 /\ buf[Len(buf)] # LF THEN Append(buf, LF) ELSE buf

(***************************************************************************)
(* add-patch.c: hunks and the diff parser.                                 *)
(***************************************************************************)
UNDECIDED_HUNK == "UNDECIDED_HUNK"
SKIP_HUNK == "SKIP_HUNK"
USE_HUNK == "USE_HUNK"

ZeroHeader ==
    [old_offset |-> 0, old_count |-> 0, new_offset |-> 0, new_count |-> 0,
     extra_start |-> 0, extra_end |-> 0,
     colored_extra_start |-> 0, colored_extra_end |-> 0]

\* a hunk after memset(hunk, 0, sizeof(*hunk))
ZeroHunk ==
    [start |-> 0, end |-> 0, colored_start |-> 0, colored_end |-> 0,
     use |-> UNDECIDED_HUNK, header |-> ZeroHeader]

S_diff == <<"d", "i", "f", "f", " ">>
S_hunk == <<"@", "@", " ">>
S_hunk_minus == <<"@", "@", " ", "-">>
S_plus == <<" ", "+">>
S_hunk_end == <<" ", "@", "@">>

\* the messages of error() in parse_hunk_header and parse_diff, without the
\* line that is quoted after them
E_header == "could not parse hunk header"
E_colored_header == "could not parse colored hunk header"
E_diff == "could not parse diff"
E_colored_diff == "could not parse colored diff"

\* parse_range once the offset is read: r1 is what strtoul gave at p
parse_range_count(buf, p, r1) ==
    IF r1.end = p THEN [ok |-> FALSE, offset |-> r1.val, count |-> 0, p |-> p]
    ELSE IF At(buf, r1.end) # ","
    THEN [ok |-> TRUE, offset |-> r1.val, count |-> 1, p |-> r1.end]
    ELSE [ok |-> strtoul(buf, r1.end + 1).end # r1.end + 1,
          offset |-> r1.val,
          count |-> strtoul(buf, r1.end + 1).val,
          p |-> strtoul(buf, r1.end + 1).end]

parse_range(buf, p) == parse_range_count(buf, p, strtoul(buf, p))

\* the end of the line that starts at p: the offset of its '\n', or the length
EndOfLine(buf, p) ==
    IF memchr(buf, p, LF, Len(buf) - p) < 0 THEN Len(buf)
    ELSE memchr(buf, p, LF, Len(buf) - p)

\* the offset of the line after the one whose end is eol
AfterLine(buf, eol) == eol + (IF At(buf, eol) = LF THEN 1 ELSE 0)

\* parse_hunk_header, the colored header: cp1 is where "@@ -" was found in the
\* colored line, ceol the end of that line
colored_header_end(colored, hunk, ceol, cp1) ==
    IF cp1 < 0 \/ memmem(colored, cp1 + 4, ceol - cp1 - 4, S_hunk_end) < 0
    THEN [ok |-> FALSE, err |-> E_colored_header, hunk |-> hunk]
    ELSE [ok |-> TRUE, err |-> "",
          hunk |-> [hunk EXCEPT
             !.colored_start = AfterLine(colored, ceol),
             !.header.colored_extra_start =
                 memmem(colored, cp1 + 4, ceol - cp1 - 4, S_hunk_end) + 3,
             !.header.colored_extra_end = AfterLine(colored, ceol)]]

colored_header_line(colored, hunk, ceol) ==
    colored_header_end(colored, hunk, ceol,
        memmem(colored, hunk.colored_start, ceol - hunk.colored_start, S_hunk_minus))

colored_header(colored, hunk) ==
    IF Len(colored) = 0 THEN [ok |-> TRUE, err |-> "", hunk |-> hunk]
    ELSE colored_header_line(colored, hunk, EndOfLine(colored, hunk.colored_start))

\* parse_hunk_header, the plain header parsed: ro and rn are its ranges, p the
\* offset after its second "@@", start the offset of the line after it
plain_header(colored, hunk, ro, rn, p, start) ==
    colored_header(colored,
        [hunk EXCEPT !.start = start,
                     !.header.old_offset = ro.offset,
                     !.header.old_count = ro.count,
                     !.header.new_offset = rn.offset,
                     !.header.new_count = rn.count,
                     !.header.extra_start = p,
                     !.header.extra_end = start])

header_new_range(plain, colored, hunk, ro, rn) ==
    IF ~rn.ok \/ skip_prefix(plain, rn.p, S_hunk_end) < 0
    THEN [ok |-> FALSE, err |-> E_header, hunk |-> hunk]
    ELSE plain_header(colored, hunk, ro, rn, skip_prefix(plain, rn.p, S_hunk_end),
                      AfterLine(plain, EndOfLine(plain, hunk.start)))

header_old_range(plain, colored, hunk, ro) ==
    IF ~ro.ok \/ skip_prefix(plain, ro.p, S_plus) < 0
    THEN [ok |-> FALSE, err |-> E_header, hunk |-> hunk]
    ELSE header_new_range(plain, colored, hunk, ro,
                          parse_range(plain, skip_prefix(plain, ro.p, S_plus)))

\* parse_hunk_header: the hunk, with start at its header line, is given its header
\* fields and its start (and colored_start) is moved past the header line
parse_hunk_header(plain, colored, hunk) ==
    IF skip_prefix(plain, hunk.start, S_hunk_minus) < 0
    THEN [ok |-> FALSE, err |-> E_header, hunk |-> hunk]
    ELSE header_old_range(plain, colored, hunk,
                          parse_range(plain, skip_prefix(plain, hunk.start, S_hunk_minus)))

\* the hunk the parser's hunk pointer names: the last hunk of the last file
\* diff, or its head when it has no hunk yet
CurIsHead(fd) == Len(fd[Len(fd)].hunk) = 0

\* the end is set for a hunk only, never for the head
SetCurEndHunkOnly(fd, p, has_colored, colored_p) ==
    IF Len(fd[Len(fd)].hunk) = 0 THEN fd
    ELSE [fd EXCEPT ![Len(fd)].hunk[Len(fd[Len(fd)].hunk)].end = p,
                    ![Len(fd)].hunk[Len(fd[Len(fd)].hunk)].colored_end =
                        IF has_colored THEN colored_p ELSE @]

\* hunk->end = p and hunk->colored_end = colored_p for that hunk
SetCurEnd(fd, p, has_colored, colored_p) ==
    IF CurIsHead(fd)
    THEN [fd EXCEPT ![Len(fd)].head.end = p,
                    ![Len(fd)].head.colored_end = IF has_colored THEN colored_p ELSE @]
    ELSE [fd EXCEPT ![Len(fd)].hunk[Len(fd[Len(fd)].hunk)].end = p,
                    ![Len(fd)].hunk[Len(fd[Len(fd)].hunk)].colored_end =
                        IF has_colored THEN colored_p ELSE @]

\* a hunk (or head) that starts at p: memset, start, colored_start
HunkAt(p, has_colored, colored_p) ==
    [ZeroHunk EXCEPT !.start = p,
                     !.colored_start = IF has_colored THEN colored_p ELSE 0]

\* the line after the colored line at colored_p
NextColored(colored, has_colored, colored_p) ==
    IF ~has_colored THEN colored_p
    ELSE IF memchr(colored, colored_p, LF, Len(colored) - colored_p) >= 0
    THEN memchr(colored, colored_p, LF, Len(colored) - colored_p) + 1
    ELSE Len(colored)

\* the variables of the loop of parse_diff ("parse files and hunks"): res is
\* "more" while the loop goes on
LoopState(res, p, colored_p, fd) ==
    [res |-> res, err |-> "", p |-> p, colored_p |-> colored_p, file_diff |-> fd]

\* return -1 out of that loop, msg being what parse_hunk_header wrote to stderr
LoopError(msg, p, colored_p, fd) ==
    [res |-> "error", err |-> msg, p |-> p, colored_p |-> colored_p, file_diff |-> fd]

\* the end of the loop body of parse_diff: p and colored_p move to the next
\* line and the current hunk ends there
parse_line_end(has_colored, pnext, cnext, fd) ==
    LoopState("more", pnext, cnext, SetCurEnd(fd, pnext, has_colored, cnext))

\* that loop body going on whatever parse_hunk_header returned
ParseHunkLineUnchecked(plain, colored, has_colored, p, colored_p, fd, parsed) ==
    parse_line_end(has_colored,
                   AfterLine(plain, EndOfLine(plain, p)),
                   NextColored(colored, has_colored, colored_p),
                   [fd EXCEPT ![Len(fd)].hunk = Append(@, parsed.hunk)])

\* the loop body of parse_diff at a "@@ " line, parsed being what
\* parse_hunk_header made of the new hunk
parse_hunk_line(plain, colored, has_colored, p, colored_p, fd, parsed) ==
    IF ~parsed.ok
    THEN LoopError(parsed.err, p, colored_p,
                   [fd EXCEPT ![Len(fd)].hunk = Append(@, parsed.hunk)])
    ELSE parse_line_end(has_colored,
                        AfterLine(plain, EndOfLine(plain, p)),
                        NextColored(colored, has_colored, colored_p),
                        [fd EXCEPT ![Len(fd)].hunk = Append(@, parsed.hunk)])

\* the loop body of parse_diff for the line at p
parse_line(plain, colored, has_colored, p, colored_p, fd) ==
    IF starts_with(plain, p, S_diff)
    THEN parse_line_end(has_colored,
                        AfterLine(plain, EndOfLine(plain, p)),
                        NextColored(colored, has_colored, colored_p),
                        Append(fd, [head |-> HunkAt(p, has_colored, colored_p),
                                    hunk |-> <<>>]))
    ELSE IF p = 0 THEN LoopState("BUG", p, colored_p, fd)
    ELSE IF starts_with(plain, p, S_hunk)
    THEN parse_hunk_line(plain, colored, has_colored, p, colored_p, fd,
                         parse_hunk_header(plain, colored,
                                           HunkAt(p, has_colored, colored_p)))
    ELSE parse_line_end(has_colored,
                        AfterLine(plain, EndOfLine(plain, p)),
                        NextColored(colored, has_colored, colored_p), fd)

\* the loop of parse_diff from the loop state st on
RECURSIVE parse_lines(_, _, _, _)
parse_lines(plain, colored, has_colored, st) ==
    IF st.res # "more" THEN st
    ELSE IF st.p = Len(plain) THEN LoopState("ok", st.p, st.colored_p, st.file_diff)
    ELSE parse_lines(plain, colored, has_colored,
                     parse_line(plain, colored, has_colored, st.p, st.colored_p,
                                st.file_diff))

\* what parse_diff leaves in state->plain, state->colored and state->file_diff,
\* and how it ends
parse_result(plain, colored, st) ==
    [res |-> st.res, err |-> st.err, plain |-> plain, colored |-> colored,
     file_diff |-> st.file_diff]

\* parse_diff after the capture
parse_diff_buffers(raw_plain, has_colored, raw_colored) ==
    IF Len(raw_plain) = 0
    THEN [res |-> "ok", err |-> "", plain |-> raw_plain, colored |-> <<>>,
          file_diff |-> <<>>]
    ELSE parse_result(strbuf_complete_line(raw_plain),
                      IF has_colored THEN strbuf_complete_line(raw_colored) ELSE <<>>,
                      parse_lines(strbuf_complete_line(raw_plain),
                                  IF has_colored THEN strbuf_complete_line(raw_colored)
                                  ELSE <<>>,
                                  has_colored, LoopState("more", 0, 0, <<>>)))

(***************************************************************************)
(* add-patch.c: the hunk renderer and the patch reassembler.               *)
(***************************************************************************)
\* state->state.fraginfo_color and GIT_COLOR_RESET: one escape sequence each
fraginfo_color == <<"ESC[36m">>
GIT_COLOR_RESET == <<"ESC[m">>

\* "@@ -%lu,%lu +%lu,%lu @@"
fmt_hunk_header(old_offset, old_count, new_offset, new_count) ==
    S_hunk_minus \o fmt_lu(old_offset) \o <<",">> \o fmt_lu(old_count)
        \o S_plus \o fmt_lu(new_offset) \o <<",">> \o fmt_lu(new_count)
        \o S_hunk_end

\* what render_hunk adds to out
render_hunk(plain, colored, hunk, delta, is_colored) ==
    LET header == hunk.header
        p == IF ~is_colored THEN header.extra_start ELSE header.colored_extra_start
        len == IF ~is_colored THEN header.extra_end - header.extra_start
               ELSE header.colored_extra_end - header.colored_extra_start
        generated ==
            (IF is_colored THEN fraginfo_color ELSE <<>>)
            \o fmt_hunk_header(header.old_offset, header.old_count,
                               ToUlong(header.new_offset + delta), header.new_count)
            \o (IF len # 0
                THEN Slice(IF is_colored THEN colored ELSE plain, p, p + len)
                ELSE IF is_colored THEN GIT_COLOR_RESET \o <<LF>> ELSE <<LF>>)
    IN  (IF header.old_offset # 0 \/ header.new_offset # 0 THEN generated ELSE <<>>)
        \o (IF is_colored THEN Slice(colored, hunk.colored_start, hunk.colored_end)
            ELSE Slice(plain, hunk.start, hunk.end))

\* a hunk that is left out moves the later hunks of the new file
SkippedDeltaWrong(delta, hunk) ==
    IF hunk.use # USE_HUNK
    THEN ToSsize(delta + hunk.header.new_count - hunk.header.old_count)
    ELSE delta

\* delta after the loop body of reassemble_patch has seen hunk
next_delta(delta, hunk) ==
    IF hunk.use # USE_HUNK
    THEN ToSsize(delta + hunk.header.old_count - hunk.header.new_count)
    ELSE delta

\* the loop of reassemble_patch from hunk i (1-based) on
RECURSIVE reassemble_hunks(_, _, _, _, _)
reassemble_hunks(plain, colored, hunks, i, delta) ==
    IF i > Len(hunks) THEN <<>>
    ELSE (IF hunks[i].use # USE_HUNK THEN <<>>
          ELSE render_hunk(plain, colored, hunks[i], delta, FALSE))
         \o reassemble_hunks(plain, colored, hunks, i + 1, next_delta(delta, hunks[i]))

reassemble_patch(plain, colored, file) ==
    render_hunk(plain, colored, file.head, 0, FALSE)
        \o reassemble_hunks(plain, colored, file.hunk, 1, 0)

(***************************************************************************)
(* add-patch.c: the steps of the prompt loop of patch_update_file.         *)
(***************************************************************************)
\* the loop that looks for the closest undecided hunk before the current one
RECURSIVE scan_previous(_, _)
scan_previous(hunk, i) ==
    IF i < 0 THEN -1
    ELSE IF hunk[i + 1].use = UNDECIDED_HUNK THEN i
    ELSE scan_previous(hunk, i - 1)

undecided_previous(hunk, index) == scan_previous(hunk, index - 1)

\* the loop that looks for the closest undecided hunk after the current one
RECURSIVE scan_next(_, _)
scan_next(hunk, i) ==
    IF i >= Len(hunk) THEN -1
    ELSE IF hunk[i + 1].use = UNDECIDED_HUNK THEN i
    ELSE scan_next(hunk, i + 1)

undecided_next(hunk, index) == scan_next(hunk, index + 1)

\* a wrap that lets the index one past the last hunk through
WrapPastEnd(hunk, index) == IF index > Len(hunk) THEN 0 ELSE index

\* if (hunk_index >= file_diff->hunk_nr) hunk_index = 0;
wrap_index(hunk, index) == IF index >= Len(hunk) THEN 0 ELSE index

\* the test without the look at the hunks before the current one
DecidedFromHere(hunk, index) ==
    /\ undecided_next(hunk, index) < 0
    /\ hunk[index + 1].use # UNDECIDED_HUNK

\* "Everything decided?"
everything_decided(hunk, index) ==
    /\ undecided_previous(hunk, index) < 0
    /\ undecided_next(hunk, index) < 0
    /\ hunk[index + 1].use # UNDECIDED_HUNK

\* a prompt that offers the four navigation keys whatever the hunks are
PromptKeysAll(hunk, index) == <<",", "k", ",", "K", ",", "j", ",", "J">>

\* the keys that the prompt offers between "y,n,a,d" and ",?"
prompt_keys(hunk, index) ==
    (IF undecided_previous(hunk, index) >= 0 THEN <<",", "k">> ELSE <<>>)
        \o (IF index # 0 THEN <<",", "K">> ELSE <<>>)
        \o (IF undecided_next(hunk, index) >= 0 THEN <<",", "j">> ELSE <<>>)
        \o (IF index + 1 < Len(hunk) THEN <<",", "J">> ELSE <<>>)

\* an increment that does not look for an undecided hunk
HardIncrement(hunk, index) == index + 1

\* while (++hunk_index < hunk_nr && hunk[hunk_index].use != UNDECIDED_HUNK)
RECURSIVE soft_increment(_, _)
soft_increment(hunk, index) ==
    IF index + 1 < Len(hunk) /\ hunk[index + 2].use # UNDECIDED_HUNK
    THEN soft_increment(hunk, index + 1)
    ELSE index + 1

\* a decision that is made for an undecided hunk only
SetUseIfUndecided(hunk, index, use) ==
    IF hunk[index + 1].use = UNDECIDED_HUNK THEN [hunk EXCEPT ![index + 1].use = use]
    ELSE hunk

\* hunk->use = use, for the hunk at index
set_use(hunk, index, use) == [hunk EXCEPT ![index + 1].use = use]

\* for loops that leave every hunk as it is
KeepRemaining(hunk, index, use) == hunk

\* for loops that decide every hunk from index on, decided or not
SetRemainingAll(hunk, index, use) ==
    [k \in 1..Len(hunk) |->
        IF k - 1 >= index THEN [hunk[k] EXCEPT !.use = use] ELSE hunk[k]]

\* the for loops of the answers a and d: the undecided hunks from index on
set_remaining(hunk, index, use) ==
    [k \in 1..Len(hunk) |->
        IF k - 1 >= index /\ hunk[k].use = UNDECIDED_HUNK
        THEN [hunk[k] EXCEPT !.use = use]
        ELSE hunk[k]]

UpperChars == <<"A", "D", "J", "K", "N", "Y">>
LowerChars == <<"a", "d", "j", "k", "n", "y">>

tolower(c) ==
    IF \E k \in 1..Len(UpperChars) : UpperChars[k] = c
    THEN LowerChars[CHOOSE k \in 1..Len(UpperChars) : UpperChars[k] = c]
    ELSE c

\* what one pass of the loop body does after the answer was read: the hunks,
\* hunk_index at the end of the body, and what was written to stderr and stdout
Effect(hunk, index, stderr, help_text) ==
    [hunk |-> hunk, index |-> index, err |-> stderr, help |-> help_text]

\* the answers y and n
answer_use(hunk, index, use) ==
    Effect(set_use(hunk, index, use), soft_increment(set_use(hunk, index, use), index),
           "", FALSE)

\* the answers a and d
answer_remaining(hunk, index, use) ==
    Effect(set_remaining(hunk, index, use), Len(hunk), "", FALSE)

\* a K that wraps around to the last hunk instead of complaining
WrappingK(hunk, index) ==
    IF index # 0 THEN Effect(hunk, index - 1, "", FALSE)
    ELSE Effect(hunk, Len(hunk) - 1, "", FALSE)

answer_K(hunk, index) ==
    IF index # 0 THEN Effect(hunk, index - 1, "", FALSE)
    ELSE Effect(hunk, index, "No previous hunk", FALSE)

answer_J(hunk, index) ==
    IF index + 1 < Len(hunk) THEN Effect(hunk, index + 1, "", FALSE)
    ELSE Effect(hunk, index, "No next hunk", FALSE)

answer_k(hunk, index) ==
    IF undecided_previous(hunk, index) >= 0
    THEN Effect(hunk, undecided_previous(hunk, index), "", FALSE)
    ELSE Effect(hunk, index, "No previous hunk", FALSE)

answer_j(hunk, index) ==
    IF undecided_next(hunk, index) >= 0
    THEN Effect(hunk, undecided_next(hunk, index), "", FALSE)
    ELSE Effect(hunk, index, "No next hunk", FALSE)

\* the chain of tests on ch = tolower(answer.buf[0]) and first = answer.buf[0]
answer_key(hunk, index, first, ch) ==
    IF ch = "y" THEN answer_use(hunk, index, USE_HUNK)
    ELSE IF ch = "n" THEN answer_use(hunk, index, SKIP_HUNK)
    ELSE IF ch = "a" THEN answer_remaining(hunk, index, USE_HUNK)
    ELSE IF ch = "d" THEN answer_remaining(hunk, index, SKIP_HUNK)
    ELSE IF first = "K" THEN answer_K(hunk, index)
    ELSE IF first = "J" THEN answer_J(hunk, index)
    ELSE IF first = "k" THEN answer_k(hunk, index)
    ELSE IF first = "j" THEN answer_j(hunk, index)
    ELSE Effect(hunk, index, "", TRUE)

\* the loop body from `if (!state->answer.len) continue;` on
answer_effect(hunk, index, answer) ==
    IF Len(answer) = 0 THEN Effect(hunk, index, "", FALSE)
    ELSE answer_key(hunk, index, answer[1], tolower(answer[1]))

\* a test that asks for every hunk to be used
AllUse(hunk) == \A k \in 1..Len(hunk) : hunk[k].use = USE_HUNK

\* a test that looks at the first hunk only
FirstUse(hunk) == Len(hunk) > 0 /\ hunk[1].use = USE_HUNK

\* "Any hunk to be used?"
any_use(hunk) == \E k \in 1..Len(hunk) : hunk[k].use = USE_HUNK

\* the loop of run_add_p from file diff i on: patch_update_file returns at
\* once for a file diff without hunks
RECURSIVE next_file(_, _)
next_file(fd, i) ==
    IF i >= Len(fd) \/ Len(fd[i + 1].hunk) # 0 THEN i ELSE next_file(fd, i + 1)

(***************************************************************************)
(* The output of `diff-files -p` that parse_diff captures: a file diff is  *)
(* described by the name of the file, the number of unchanged lines before *)
(* its first hunk and between two hunks, and per hunk the number of old    *)
(* and new lines and whether the header carries a function name.           *)
(***************************************************************************)
\* a range as the diff tool prints it: the count is left out when it is 1
gen_range(offset, count) ==
    fmt_lu(offset) \o (IF count = 1 THEN <<>> ELSE <<",">> \o fmt_lu(count))

\* the offset printed for a range of count lines that starts at line
gen_offset(line, count) == IF count = 0 THEN line - 1 ELSE line

gen_extra(h) == IF h.extra THEN <<" ", "f">> ELSE <<>>

gen_body(h) == Repeat(<<"-", LF>>, h.old_count) \o Repeat(<<"+", LF>>, h.new_count)

gen_header(ol, nl, h) ==
    S_hunk_minus \o gen_range(gen_offset(ol, h.old_count), h.old_count)
        \o S_plus \o gen_range(gen_offset(nl, h.new_count), h.new_count)
        \o S_hunk_end \o gen_extra(h) \o <<LF>>

\* the first old and new line of each hunk: ol, nl are the lines after hunk i - 1
RECURSIVE gen_hunks(_, _, _, _, _)
gen_hunks(f, i, ol, nl, colorize) ==
    IF i > Len(f.hunks) THEN <<>>
    ELSE LET h == f.hunks[i]
             gap == IF i = 1 THEN f.first ELSE f.gap
         IN  (IF colorize
              THEN fraginfo_color \o S_hunk_minus
                   \o gen_range(gen_offset(ol + gap, h.old_count), h.old_count)
                   \o S_plus
                   \o gen_range(gen_offset(nl + gap, h.new_count), h.new_count)
                   \o S_hunk_end \o GIT_COLOR_RESET \o gen_extra(h) \o <<LF>>
                   \o Repeat(<<"ESC[31m", "-", "ESC[m", LF>>, h.old_count)
                   \o Repeat(<<"ESC[32m", "+", "ESC[m", LF>>, h.new_count)
              ELSE gen_header(ol + gap, nl + gap, h) \o gen_body(h))
             \o gen_hunks(f, i + 1, ol + gap + h.old_count, nl + gap + h.new_count,
                          colorize)

gen_head(f, colorize) ==
    IF colorize
    THEN <<"ESC[1m">> \o S_diff \o <<f.name>> \o GIT_COLOR_RESET \o <<LF>>
         \o <<"ESC[1m", "-", "-", "-", " ", f.name>> \o GIT_COLOR_RESET \o <<LF>>
    ELSE S_diff \o <<f.name, LF>> \o <<"-", "-", "-", " ", f.name, LF>>

gen_file(f, colorize) == gen_head(f, colorize) \o gen_hunks(f, 1, 1, 1, colorize)

RECURSIVE gen_diff(_, _)
gen_diff(files, colorize) ==
    IF files = <<>> THEN <<>>
    ELSE gen_file(Head(files), colorize) \o gen_diff(Tail(files), colorize)

\* the old and new line counts of a generated hunk
GenCounts ==
    {[old_count |-> oc, new_count |-> nc] : oc \in 0..MaxCount, nc \in 0..MaxCount}
    \ {[old_count |-> 0, new_count |-> 0]}

\* the generated file diffs: the odd hunks carry a function name
GenFile ==
    {[name |-> "a", first |-> 0, gap |-> 3,
      hunks |-> [k \in 1..Len(cs) |->
                    [old_count |-> cs[k].old_count, new_count |-> cs[k].new_count,
                     extra |-> k % 2 = 1]]] :
        cs \in UNION {[1..n -> GenCounts] : n \in 0..MaxGenHunks}}

\* a file diff with one hunk that changes the first line
LeadFile ==
    [name |-> "b", first |-> 0, gap |-> 3,
     hunks |-> <<[old_count |-> 1, new_count |-> 1, extra |-> FALSE]>>]

\* H1 (-10,5 +10,2) and H2 (-20,3 +17,3)
ScenarioS3 ==
    [name |-> "c", first |-> 9, gap |-> 5,
     hunks |-> <<[old_count |-> 5, new_count |-> 2, extra |-> FALSE],
                 [old_count |-> 3, new_count |-> 3, extra |-> FALSE]>>]

\* the diffs of the reassembly specification
GenDiff == {<<LeadFile, f>> : f \in GenFile} \cup {<<ScenarioS3>>}

(***************************************************************************)
(* add-interactive.c: prefix items, find_unique and the token loop of      *)
(* list_and_choose.  An item is its name (without the NUL) and its         *)
(* prefix_length; input is the memory of the strbuf, NUL included.         *)
(***************************************************************************)
\* " \t\r\n,"
Separators == {" ", "\t", "\r", LF, ","}

\* strcspn(buf + p, " \t\r\n,")
RECURSIVE strcspn(_, _)
strcspn(buf, p) ==
    IF At(buf, p) = NUL \/ At(buf, p) \in Separators THEN 0 ELSE 1 + strcspn(buf, p + 1)

\* the filter without the test for a digit
ValidWithDigit(prefix, prefix_len) ==
    /\ prefix_len # 0
    /\ prefix_len <= Len(prefix)
    /\ \A k \in 1..prefix_len : prefix[k] \notin Separators
    /\ prefix[1] # "-"
    /\ (prefix_len # 1 \/ (prefix[1] # "*" /\ prefix[1] # "?"))

\* starts_with(str, prefix) for two C strings
str_starts_with(str, prefix) ==
    /\ Len(prefix) <= Len(str)
    /\ \A k \in 1..Len(prefix) : str[k] = prefix[k]

is_valid_prefix(prefix, prefix_len) ==
    /\ prefix_len # 0
    /\ strcspn(prefix, 0) >= prefix_len
    /\ At(prefix, 0) # "-"
    /\ ~isdigit(At(prefix, 0))
    /\ (prefix_len # 1 \/ (At(prefix, 0) # "*" /\ At(prefix, 0) # "?"))

\* the lengths L in min_length..max_length for which name[0:L] is a valid
\* prefix that no other name starts with
UniquePrefixLengths(names, i, min_length, max_length) ==
    {L \in min_length..max_length :
        /\ L <= Len(names[i])
        /\ is_valid_prefix(names[i], L)
        /\ \A j \in 1..Len(names) :
              j # i => ~str_starts_with(names[j], SubSeq(names[i], 1, L))}

\* the items that find_unique_prefixes leaves: the smallest such length, or 0
find_unique_prefixes(names, min_length, max_length) ==
    [i \in 1..Len(names) |->
        [name |-> names[i],
         prefix_length |->
            IF UniquePrefixLengths(names, i, min_length, max_length) = {} THEN 0
            ELSE CHOOSE L \in UniquePrefixLengths(names, i, min_length, max_length) :
                    \A M \in UniquePrefixLengths(names, i, min_length, max_length) :
                        L <= M]]

\* the first item whose name starts with string, unique or not
FindFirst(string, list) ==
    IF \E k \in 1..Len(list) : str_starts_with(list[k].name, string)
    THEN (CHOOSE k \in 1..Len(list) :
             /\ str_starts_with(list[k].name, string)
             /\ \A j \in 1..(k - 1) : ~str_starts_with(list[j].name, string)) - 1
    ELSE -1

\* the item whose name is string, no shorter string being accepted
FindExact(string, list) ==
    IF \E k \in 1..Len(list) : list[k].name = string
    THEN (CHOOSE k \in 1..Len(list) : list[k].name = string) - 1
    ELSE -1

\* the loop of find_unique from item i on
RECURSIVE find_unique_from(_, _, _, _)
find_unique_from(string, list, i, found) ==
    IF i >= Len(list) THEN found
    ELSE IF ~str_starts_with(list[i + 1].name, string)
    THEN find_unique_from(string, list, i + 1, found)
    ELSE IF found >= 0 THEN -1
    ELSE find_unique_from(string, list, i + 1, i)

find_unique(string, list) == find_unique_from(string, list, 0, -1)

\* strbuf_rtrim: the length it leaves
RECURSIVE rtrim_len(_, _)
rtrim_len(buf, len) ==
    IF len > 0 /\ isspace(At(buf, len - 1)) THEN rtrim_len(buf, len - 1) ELSE len

\* the number of white space bytes at the start of the len bytes from b on
RECURSIVE ltrim_skip(_, _, _)
ltrim_skip(buf, b, len) ==
    IF len > 0 /\ isspace(At(buf, b)) THEN ltrim_skip(buf, b + 1, len - 1) ELSE b

\* buf[off] = c
poke(buf, off, c) == [buf EXCEPT ![off + 1] = c]

\* memmove(buf, buf + b, n); buf[n] = '\0'
ltrim_move(buf, b, n) ==
    poke([k \in 1..Len(buf) |-> IF k <= n THEN buf[k + b] ELSE buf[k]], n, NUL)

\* strbuf_trim on the memory buf that holds a string of len bytes
strbuf_trim_at(buf, len) ==
    ltrim_move(poke(buf, len, NUL), ltrim_skip(buf, 0, len), len - ltrim_skip(buf, 0, len))

strbuf_trim(buf, len) == strbuf_trim_at(buf, rtrim_len(buf, len))

\* index as set by `if (isdigit(*p)) { ... }`, r being what strtoul gave at p
numeric_index(buf, p, sep, r) ==
    IF ~isdigit(At(buf, p)) THEN -1
    ELSE IF r.end # p + sep THEN -1
    ELSE ToSsize(r.val - 1)

\* the variables of the token loop: more is FALSE once the loop is left; picks
\* holds, per token, the string that was looked at and the index it got
TokenState(more, buf, p, res, picks) ==
    [more |-> more, buf |-> buf, p |-> p, res |-> res, picks |-> picks]

\* the end of the loop body without the test `index >= nr`
TokenEndUnchecked(list, st, sep, index) ==
    IF index < 0
    THEN TokenState(TRUE, poke(st.buf, st.p + sep, NUL), st.p + sep + 1, st.res,
                    Append(st.picks, [token |-> Slice(st.buf, st.p, st.p + sep),
                                      index |-> index]))
    ELSE TokenState(FALSE, poke(st.buf, st.p + sep, NUL), st.p, index,
                    Append(st.picks, [token |-> Slice(st.buf, st.p, st.p + sep),
                                      index |-> index]))

\* the end of the loop body, index being final
token_end(list, st, sep, index) ==
    IF index < 0 \/ index >= Len(list)
    THEN TokenState(TRUE, poke(st.buf, st.p + sep, NUL), st.p + sep + 1, st.res,
                    Append(st.picks, [token |-> Slice(st.buf, st.p, st.p + sep),
                                      index |-> index]))
    ELSE TokenState(FALSE, poke(st.buf, st.p + sep, NUL), st.p, index,
                    Append(st.picks, [token |-> Slice(st.buf, st.p, st.p + sep),
                                      index |-> index]))

\* `if (index < 0) index = find_unique(p, items, nr);`
token_index(list, st, sep, index) ==
    token_end(list, st, sep,
              IF index < 0 THEN find_unique(Slice(st.buf, st.p, st.p + sep), list)
              ELSE index)

\* the body of the token loop, sep being strcspn(p, " \t\r\n,")
token_step(list, st, sep) ==
    IF sep = 0
    THEN IF At(st.buf, st.p) = NUL
         THEN TokenState(FALSE, st.buf, st.p, st.res, st.picks)
         ELSE TokenState(TRUE, st.buf, st.p + 1, st.res, st.picks)
    ELSE token_index(list, st, sep, numeric_index(st.buf, st.p, sep, strtoul(st.buf, st.p)))

RECURSIVE token_loop(_, _)
token_loop(list, st) ==
    IF ~st.more THEN st ELSE token_loop(list, token_step(list, st, strcspn(st.buf, st.p)))

\* input.len after strbuf_trim
trimmed_len(buf, len) == rtrim_len(buf, len) - ltrim_skip(buf, 0, rtrim_len(buf, len))

\* list_and_choose from strbuf_trim to the end of the token loop, buf being the
\* memory that holds the line of len bytes
choose_in_line(list, buf, len) ==
    IF trimmed_len(buf, len) = 0
    THEN TokenState(FALSE, strbuf_trim(buf, len), 0, -1, <<>>)
    ELSE token_loop(list, TokenState(TRUE, strbuf_trim(buf, len), 0, -1, <<>>))

(***************************************************************************)
(* add-interactive.c: init_add_i_state and the main loop of run_add_i.     *)
(* A configuration is the value of color.interactive and of                *)
(* color.interactive.header, "unset" when the key is not set.              *)
(***************************************************************************)
GIT_COLOR_BOLD == "bold"

\* color_parse(value, dst): 0 for a color, non-zero for a value that names none
color_parse(value) == IF value = "malformed" THEN -1 ELSE 0

\* git_config_colorbool("color.interactive", value); 2 is GIT_COLOR_AUTO
git_config_colorbool(value) ==
    IF value = "never" THEN 0 ELSE IF value = "always" THEN 1 ELSE 2

\* want_color(use_color): a negative or automatic setting asks the terminal
want_color(use_color, tty) ==
    IF use_color = 0 THEN 0
    ELSE IF use_color = 1 THEN 1
    ELSE IF tty THEN 1 ELSE 0

\* what init_color leaves in dst
init_color(use_color, value, default_color) ==
    IF use_color = 0 THEN ""
    ELSE IF value = "unset" \/ color_parse(value) # 0 THEN default_color
    ELSE value

\* init_add_i_state once state->use_color is set: its return value and the state
init_add_i_colors(use_color, config) ==
    [ret |-> 0,
     use_color |-> use_color,
     header_color |-> init_color(use_color, config.header, GIT_COLOR_BOLD)]

init_add_i_state(config, tty) ==
    init_add_i_colors(want_color(IF config.interactive = "unset" THEN -1
                                 ELSE git_config_colorbool(config.interactive), tty),
                      config)

\* the bytes of the path names, in ascending order of their value
PathBytes == <<"/", "a", "b">>

ByteOf(c) == CHOOSE k \in 1..Len(PathBytes) : PathBytes[k] = c

\* strcmp(s1, s2) for two strings that agree before their k-th byte
RECURSIVE strcmp_from(_, _, _)
strcmp_from(s1, s2, k) ==
    IF k > Len(s1) /\ k > Len(s2) THEN 0
    ELSE IF k > Len(s1) THEN -1
    ELSE IF k > Len(s2) THEN 1
    ELSE IF s1[k] # s2[k] THEN ByteOf(s1[k]) - ByteOf(s2[k])
    ELSE strcmp_from(s1, s2, k + 1)

strcmp(s1, s2) == strcmp_from(s1, s2, 1)

\* enum { FROM_WORKTREE, FROM_INDEX } phase
FROM_WORKTREE == "worktree"
FROM_INDEX == "index"

\* a struct adddel that FLEXPTR_ALLOC_STR zeroed; add and del are left out
NoAddDel == [seen |-> FALSE]

add_file_item(list, name) ==
    Append(list, [name |-> name, index |-> NoAddDel, worktree |-> NoAddDel])

\* a file list that is not emptied
KeepFileList(list) == list

\* reset_file_list: list->nr = 0
reset_file_list(list) == <<>>

file_item_cmp(f1, f2) == strcmp(f1.name, f2.name)

\* hashmap_get_from_hash(&s->file_map, hash, name): entry->index, or -1 for NULL
hashmap_get(file_map, name) ==
    IF \E e \in file_map : e.pathname = name
    THEN (CHOOSE e \in file_map : e.pathname = name).index
    ELSE -1

\* collect_changes_cb from `file = s->list->file[file_index]` on: adddel->seen = 1
mark_seen(s, phase, file_index) ==
    [s EXCEPT !.list[file_index + 1] =
        IF phase = FROM_INDEX THEN [@ EXCEPT !.index.seen = TRUE]
        ELSE [@ EXCEPT !.worktree.seen = TRUE]]

\* the body of the loop of collect_changes_cb, file_index being what the
\* hashmap holds for name
collect_name(s, phase, name, file_index) ==
    IF file_index >= 0 THEN mark_seen(s, phase, file_index)
    ELSE mark_seen([list |-> add_file_item(s.list, name),
                    file_map |-> s.file_map \cup {[pathname |-> name, index |-> Len(s.list)]}],
                   phase, Len(s.list))

\* collect_changes_cb from stat.files[i - 1] on, for s = [list, file_map]
RECURSIVE collect_changes_cb(_, _, _, _)
collect_changes_cb(s, phase, names, i) ==
    IF i > Len(names) THEN s
    ELSE collect_changes_cb(collect_name(s, phase, names[i],
                                         hashmap_get(s.file_map, names[i])),
                            phase, names, i + 1)

\* the place of list[k] in the sorted array; equal items keep their order
sort_rank(list, k) ==
    1 + Cardinality({j \in 1..Len(list) :
                        \/ file_item_cmp(list[j], list[k]) < 0
                        \/ file_item_cmp(list[j], list[k]) = 0 /\ j < k})

\* QSORT(list->file, list->nr, file_item_cmp)
QSORT(list) ==
    [r \in 1..Len(list) |-> list[CHOOSE k \in 1..Len(list) : sort_rank(list, k) = r]]

\* get_modified_files: diffs is whether the index can be read and what the
\* diff of the worktree and the diff of the index report
get_modified_files(list, diffs) ==
    IF ~diffs.index_ok THEN [ret |-> -1, files |-> list]
    ELSE [ret |-> 0,
          files |-> QSORT(collect_changes_cb(
                              collect_changes_cb([list |-> list, file_map |-> {}],
                                                 FROM_WORKTREE, diffs.worktree, 1),
                              FROM_INDEX, diffs.index, 1).list)]

\* run_status: its return value and the file list
run_status(list, diffs) == get_modified_files(reset_file_list(list), diffs)

\* release_file_list
release_file_list(list) == reset_file_list(list)

\* a main loop that also ends when nothing was selected
QuitsWithoutSelection(i) == i < 0

\* `if (i < -1)` of the main loop
quits(i) == i < -1

(***************************************************************************)
(* State.                                                                  *)
(***************************************************************************)
VARIABLES
    pc,          \* where the program is
    gen,         \* the description of the diff that diff-files printed
    damage,      \* which output of diff-files had a hunk header damaged
    plain,       \* state->plain
    colored,     \* state->colored
    file_diff,   \* state->file_diff[0 .. file_diff_nr - 1]
    file_i,      \* i of run_add_p: the file diff patch_update_file works on
    hunk_index,  \* hunk_index of patch_update_file
    buf,         \* state->buf
    shown,       \* the hunk last written to stdout
    err,         \* what the last answer wrote to stderr
    help,        \* whether the last answer printed help_patch_text
    apply_log,   \* the runs of `apply --cached`: file diff, input, outcome
    last_exit,   \* the file diff whose prompt loop ended last, and how
    ret,         \* what run_add_p returned
    c_pc,        \* where list_and_choose is
    items,       \* items[0 .. nr - 1] of list_and_choose
    line,        \* the line that strbuf_getline read last, and what lies behind it
    input,       \* the memory of the strbuf input
    picks,       \* per token of that line, the string looked at and its index
    res,         \* res of list_and_choose
    a_pc,        \* where run_add_i is
    a_config,    \* the configuration that init_add_i_state read
    a_state,     \* the add_i_state s of run_add_i
    a_first,     \* how the status pass before the main loop ended
    a_last,      \* how the command that ran last ended
    a_res,       \* res of run_add_i, its return value once it is done
    a_bye,       \* Bye. was printed
    a_files,     \* files of run_add_i: the file list
    a_diffs      \* what the two diffs of the last status pass reported

patch_vars == <<pc, gen, damage, plain, colored, file_diff, file_i, hunk_index, buf, shown,
                err, help, apply_log, last_exit, ret>>

chooser_vars == <<c_pc, items, line, input, picks, res>>

addi_vars == <<a_pc, a_config, a_state, a_first, a_last, a_res, a_bye, a_files, a_diffs>>

vars == <<patch_vars, chooser_vars, addi_vars>>

\* no configuration read
NoConfig == [interactive |-> "unset", header |-> "unset"]

\* s = { NULL }
NoState == [use_color |-> 0, header_color |-> ""]

\* no status pass has run
NoDiffs == [ran |-> FALSE, index_ok |-> TRUE, worktree |-> <<>>, index |-> <<>>]

\* both outputs of diff-files are as diff-files writes them
NoDamage == [plain |-> FALSE, colored |-> FALSE]

\* no line read
NoLine == [text |-> <<>>, tail |-> <<>>]

Decisions == {UNDECIDED_HUNK, SKIP_HUNK, USE_HUNK}

\* the file diff with the decision d[k] in its k-th hunk
WithDecisions(file, d) ==
    [file EXCEPT !.hunk = [k \in 1..Len(file.hunk) |-> [file.hunk[k] EXCEPT !.use = d[k]]]]

Init ==
    /\ pc = "start"
    /\ gen = <<>>
    /\ damage = NoDamage
    /\ plain = <<>>
    /\ colored = <<>>
    /\ file_diff = <<>>
    /\ file_i = 0
    /\ hunk_index = 0
    /\ buf = <<>>
    /\ shown = <<>>
    /\ err = ""
    /\ help = FALSE
    /\ apply_log = <<>>
    /\ last_exit = [file |-> -1, kind |-> "none"]
    /\ ret = "none"
    /\ c_pc = "start"
    /\ items = <<>>
    /\ line = NoLine
    /\ input = <<>>
    /\ picks = <<>>
    /\ res = -1
    /\ a_pc = "start"
    /\ a_config = NoConfig
    /\ a_state = NoState
    /\ a_first = "none"
    /\ a_last = "none"
    /\ a_res = 0
    /\ a_bye = FALSE
    /\ a_files = <<>>
    /\ a_diffs = NoDiffs

(***************************************************************************)
(* The reassembly specification: parse_diff on a generated diff, then      *)
(* reassemble_patch on one of its file diffs under any decisions.          *)
(***************************************************************************)
\* the state parse_diff leaves, r being its outcome on the diff of files
Parsed(files, r) ==
    /\ gen' = files
    /\ plain' = r.plain
    /\ colored' = r.colored
    /\ file_diff' = r.file_diff
    /\ pc' = IF r.res = "ok" THEN "parsed" ELSE r.res

RParse ==
    /\ pc = "start"
    /\ \E files \in GenDiff :
          Parsed(files, parse_diff_buffers(gen_diff(files, FALSE), FALSE, <<>>))
    /\ UNCHANGED <<damage, file_i, hunk_index, buf, shown, err, help, apply_log, last_exit,
                   ret>>
    /\ UNCHANGED chooser_vars
    /\ UNCHANGED addi_vars

RReassemble ==
    /\ pc = "parsed"
    /\ \E i \in 1..Len(file_diff) :
          \E d \in [1..Len(file_diff[i].hunk) -> Decisions] :
              /\ file_diff' = [file_diff EXCEPT ![i] = WithDecisions(@, d)]
              /\ file_i' = i - 1
              /\ buf' = reassemble_patch(plain, colored, WithDecisions(file_diff[i], d))
    /\ pc' = "reassembled"
    /\ UNCHANGED <<gen, damage, plain, colored, hunk_index, shown, err, help, apply_log,
                   last_exit, ret>>
    /\ UNCHANGED chooser_vars
    /\ UNCHANGED addi_vars

RNext == RParse \/ RReassemble

SpecReassemble == Init /\ [][RNext]_vars

(***************************************************************************)
(* The prompt loop specification: run_add_p on a generated diff, one       *)
(* action per line read from stdin.                                        *)
(***************************************************************************)
\* hunk k of a file diff of the prompt loop specification
LoopHunk(k) == [old_count |-> k, new_count |-> (k % 3) + 1, extra |-> k % 2 = 1]

FileNames == <<"a", "b", "c", "d">>

\* file diff j with n hunks
LoopFile(j, n) ==
    [name |-> FileNames[j], first |-> 0, gap |-> 3, hunks |-> [k \in 1..n |-> LoopHunk(k)]]

\* the number of hunks of each file diff: the file diffs after the first one
\* have one hunk or none
LoopShape ==
    UNION {{ns \in [1..m -> 0..MaxHunks] : \A j \in 2..m : ns[j] \in {0, 1}} :
              m \in 1..MaxFiles}

\* the file diffs 1..j of the diff with the hunk numbers ns
RECURSIVE LoopFiles(_, _)
LoopFiles(ns, j) ==
    IF j = 0 THEN <<>> ELSE Append(LoopFiles(ns, j - 1), LoopFile(j, ns[j]))

\* three file diffs, the one in the middle without a hunk
LoopSkip == <<LoopFile(1, 1), LoopFile(2, 0), LoopFile(3, 1)>>

LoopDiff == {LoopFiles(ns, Len(ns)) : ns \in LoopShape} \cup {LoopSkip}

\* the lines that stdin delivers, without the line end
AnswerLines ==
    {<<>>, <<"y">>, <<"Y">>, <<"n">>, <<"N">>, <<"a">>, <<"A">>, <<"d">>, <<"D">>,
     <<"k">>, <<"K">>, <<"j">>, <<"J">>, <<"?">>, <<"y", "e", "s">>}

\* run_add_p returns value after releasing its buffers
Return(fd, value) ==
    /\ pc' = "done"
    /\ ret' = value
    /\ file_i' = Len(fd)
    /\ hunk_index' = 0
    /\ buf' = <<>>
    /\ plain' = <<>>
    /\ colored' = <<>>
    /\ shown' = shown

\* patch_update_file renders hunk index of file diff i and prompts
Prompt(fd, i, index, pl, col) ==
    /\ pc' = "prompt"
    /\ ret' = ret
    /\ file_i' = i
    /\ hunk_index' = index
    /\ shown' = render_hunk(pl, col, fd[i + 1].hunk[index + 1], 0, Len(col) # 0)
    /\ buf' = prompt_keys(fd[i + 1].hunk, index)
    /\ plain' = pl
    /\ colored' = col

\* run_add_p calls patch_update_file for file diff i, the first one left that
\* has hunks, or is through with the file diffs
EnterFile(fd, i, pl, col) ==
    IF i >= Len(fd) THEN Return(fd, 0) ELSE Prompt(fd, i, 0, pl, col)

\* the message of error() in patch_update_file
E_apply == "'git apply --cached' failed"

\* patch_update_file after its loop with a failure of `apply --cached` ending
\* run_add_p
AfterLoopStopping(fd, i, kind, stderr) ==
    /\ last_exit' = [file |-> i, kind |-> kind]
    /\ IF any_use(fd[i + 1].hunk)
       THEN \E failed \in BOOLEAN :
               /\ apply_log' = Append(apply_log,
                                      [file |-> i,
                                       input |-> reassemble_patch(plain, colored, fd[i + 1]),
                                       failed |-> failed])
               /\ err' = IF failed THEN E_apply ELSE stderr
               /\ IF failed THEN Return(fd, -1)
                  ELSE EnterFile(fd, next_file(fd, i + 1), plain, colored)
       ELSE /\ apply_log' = apply_log
            /\ err' = stderr
            /\ EnterFile(fd, next_file(fd, i + 1), plain, colored)

\* patch_update_file after its loop, and run_add_p up to the next prompt;
\* stderr is what the last answer wrote there
AfterLoop(fd, i, kind, stderr) ==
    /\ last_exit' = [file |-> i, kind |-> kind]
    /\ IF any_use(fd[i + 1].hunk)
       THEN \E failed \in BOOLEAN :
               /\ apply_log' = Append(apply_log,
                                      [file |-> i,
                                       input |-> reassemble_patch(plain, colored, fd[i + 1]),
                                       failed |-> failed])
               /\ err' = IF failed THEN E_apply ELSE stderr
       ELSE /\ apply_log' = apply_log
            /\ err' = stderr
    /\ EnterFile(fd, next_file(fd, i + 1), plain, colored)

\* the top of the loop of patch_update_file, index being hunk_index after the wrap
LoopTop(fd, i, index, stderr) ==
    IF everything_decided(fd[i + 1].hunk, index)
    THEN AfterLoop(fd, i, "decided", stderr)
    ELSE /\ Prompt(fd, i, index, plain, colored)
         /\ err' = stderr
         /\ UNCHANGED <<apply_log, last_exit>>

\* the loop body has had the effect e
Answered(e) ==
    /\ file_diff' = [file_diff EXCEPT ![file_i + 1].hunk = e.hunk]
    /\ help' = e.help
    /\ LoopTop([file_diff EXCEPT ![file_i + 1].hunk = e.hunk], file_i,
               wrap_index(e.hunk, e.index), e.err)

\* the state after parse_diff returned r
Started(r) ==
    /\ file_diff' = r.file_diff
    /\ err' = r.err
    /\ IF r.res = "ok"
       THEN EnterFile(r.file_diff, next_file(r.file_diff, 0), r.plain, r.colored)
       ELSE Return(r.file_diff, -1)

\* the offsets of the hunk headers of an output of diff-files
HeaderStarts(text) == {off \in 0..(Len(text) - 1) : starts_with(text, off, S_hunk_minus)}

\* the offset of the last hunk header of that output, if it has one
LastHeader(text) == {off \in HeaderStarts(text) : \A q \in HeaderStarts(text) : q <= off}

\* that output with one hunk header damaged: the "@@ -" of any one made "@@ +",
\* or the closing " @@" of the last one made " #@"
Damaged(text) ==
    {poke(text, off + 3, "+") : off \in HeaderStarts(text)}
    \cup {poke(text, memmem(text, off + 4, EndOfLine(text, off) - off - 4, S_hunk_end) + 1, "#") :
             off \in LastHeader(text)}

\* what capture_command may read of an output of diff-files
Captures(text) ==
    {[bytes |-> text, damaged |-> FALSE]}
    \cup {[bytes |-> d, damaged |-> TRUE] : d \in Damaged(text)}

\* what stops run_add_p before the parser: the refresh of the index, the
\* capture of the plain diff, the capture of the colored diff
Failures == {"none", "refresh", "capture", "capture_colored"}

\* run_add_p up to the first prompt
RunAddP ==
    /\ pc = "start"
    /\ \E files \in LoopDiff, use_color \in BOOLEAN, failure \in Failures :
          /\ failure = "capture_colored" => use_color
          /\ gen' = files
          /\ IF failure # "none"
             THEN /\ file_diff' = <<>>
                  /\ damage' = NoDamage
                  /\ err' = IF failure = "capture" THEN E_diff
                            ELSE IF failure = "capture_colored" THEN E_colored_diff
                            ELSE ""
                  /\ Return(<<>>, -1)
             ELSE \E pl \in Captures(gen_diff(files, FALSE)),
                     col \in IF use_color THEN Captures(gen_diff(files, TRUE))
                             ELSE {[bytes |-> <<>>, damaged |-> FALSE]} :
                     /\ damage' = [plain |-> pl.damaged, colored |-> col.damaged]
                     /\ Started(parse_diff_buffers(pl.bytes, use_color, col.bytes))
    /\ UNCHANGED <<help, apply_log, last_exit>>
    /\ UNCHANGED chooser_vars
    /\ UNCHANGED addi_vars

\* a line arrives at the prompt
AnswerLine(answer) ==
    /\ pc = "prompt"
    /\ Answered(answer_effect(file_diff[file_i + 1].hunk, hunk_index, answer))
    /\ UNCHANGED <<gen, damage>>
    /\ UNCHANGED chooser_vars
    /\ UNCHANGED addi_vars

Answer == \E answer \in AnswerLines : AnswerLine(answer)

\* stdin is at its end
Eof ==
    /\ pc = "prompt"
    /\ AfterLoop(file_diff, file_i, "eof", "")
    /\ help' = FALSE
    /\ UNCHANGED <<gen, damage, file_diff>>
    /\ UNCHANGED chooser_vars
    /\ UNCHANGED addi_vars

Next == RunAddP \/ Answer \/ Eof

Spec == Init /\ [][Next]_vars

(***************************************************************************)
(* The chooser specification: list_and_choose on a list of items, one      *)
(* action per line read from stdin.                                        *)
(***************************************************************************)
\* the commands status, stage and stash
ScenarioS6 ==
    <<<<"s", "t", "a", "t", "u", "s">>, <<"s", "t", "a", "g", "e">>,
      <<"s", "t", "a", "s", "h">>>>

\* names that the filter of is_valid_prefix is about: *, -s, ?t, and s t
FilterNames == <<<<"*">>, <<"-", "s">>, <<"?", "t">>, <<"s", " ", "t">>>>

\* the lists of names: the commands of run_add_i, names that share a prefix,
\* names that start with a digit, the commands of scenario S6, and names with
\* bytes that the chooser gives a meaning to
ItemNames ==
    {<<<<"s", "t", "a", "t", "u", "s">>>>,
     <<<<"s", "t">>, <<"s", "s">>, <<"t">>>>,
     <<<<"0", "s">>, <<"t">>>>,
     <<<<"t">>, <<"1", "s">>>>,
     ScenarioS6,
     FilterNames}

\* the bytes of the lines that stdin delivers
LineChars == {"s", "t", "0", "1", "2", " ", ","}

\* the line of scenario S6, and a line that starts with two blanks
ScenarioLines == {<<"s", "t", "a", "t">>, <<" ", " ", "s", "s">>}

\* the lines that are the unique prefix of an item of one of the lists
PrefixLines ==
    UNION {{SubSeq(names[k], 1, find_unique_prefixes(names, 1, 4)[k].prefix_length) :
               k \in 1..Len(names)} : names \in ItemNames}

\* the lines that stdin delivers, without the line end
Lines == UNION {[1..n -> LineChars] : n \in 0..MaxLine} \cup ScenarioLines \cup PrefixLines

\* what lies behind the NUL of the line in the memory of the strbuf: the NUL
\* that stood behind the line end, or, for a last line without a line end,
\* whatever the memory held
Tails == {<<NUL>>, <<"s", NUL, NUL>>, <<"1", NUL, NUL>>}

\* list_and_choose is called and prompts
ChooserStart ==
    /\ c_pc = "start"
    /\ \E names \in ItemNames : items' = find_unique_prefixes(names, 1, 4)
    /\ c_pc' = "prompt"
    /\ UNCHANGED <<line, input, picks, res>>
    /\ UNCHANGED patch_vars
    /\ UNCHANGED addi_vars

\* the token loop has ended in st on a line of trimmed bytes
Chosen(st, trimmed) ==
    /\ input' = st.buf
    /\ picks' = st.picks
    /\ res' = st.res
    /\ c_pc' = IF trimmed = 0 \/ st.res >= 0 THEN "returned" ELSE "read"

\* strbuf_getline reads one of the lines, one of the tails lying behind it
ReadLine(lines, tails) ==
    /\ c_pc = "prompt"
    /\ \E text \in lines, tail \in tails :
          /\ line' = [text |-> text, tail |-> tail]
          /\ Chosen(choose_in_line(items, text \o <<NUL>> \o tail, Len(text)),
                    trimmed_len(text \o <<NUL>> \o tail, Len(text)))
    /\ UNCHANGED items
    /\ UNCHANGED patch_vars
    /\ UNCHANGED addi_vars

\* strbuf_getline reads a line
ChooseLine == ReadLine(Lines, Tails)

\* strbuf_getline returns EOF
ChooseEof ==
    /\ c_pc = "prompt"
    /\ res' = -2
    /\ c_pc' = "returned"
    /\ UNCHANGED <<items, line, input, picks>>
    /\ UNCHANGED patch_vars
    /\ UNCHANGED addi_vars

\* no token of the line was valid: the list and the prompt are printed again
Relist ==
    /\ c_pc = "read"
    /\ c_pc' = "prompt"
    /\ line' = NoLine
    /\ input' = <<>>
    /\ picks' = <<>>
    /\ UNCHANGED <<items, res>>
    /\ UNCHANGED patch_vars
    /\ UNCHANGED addi_vars

CNext == ChooserStart \/ ChooseLine \/ ChooseEof \/ Relist

SpecChooser == Init /\ [][CNext]_vars

(***************************************************************************)
(* The main loop specification: run_add_i on a configuration, one action   *)
(* per line read from stdin and one per return of list_and_choose.         *)
(***************************************************************************)
\* the values of color.interactive and of color.interactive.header
Configs ==
    [interactive : {"unset", "never", "always", "auto"},
     header : {"unset", "red", "malformed"}]

\* commands[] = { &status }
Commands == <<<<"s", "t", "a", "t", "u", "s">>>>

\* the lines that stdin delivers to the main loop, without the line end
AddILines == {<<>>, <<"1">>, <<"2">>, <<"s">>, <<"t">>}

\* the paths that the diffs report, in the order in which a diff reports them
AllPaths == <<<<"a">>, <<"a", "/", "b">>>>

\* the paths of AllPaths that the mask picks, from path i on
RECURSIVE Picked(_, _)
Picked(mask, i) ==
    IF i > Len(AllPaths) THEN <<>>
    ELSE (IF mask[i] THEN <<AllPaths[i]>> ELSE <<>>) \o Picked(mask, i + 1)

\* what one diff may report
Reports == {Picked(mask, 1) : mask \in [1..Len(AllPaths) -> BOOLEAN]}

\* what a status pass may meet: an index that cannot be read, or two diffs
StatusDiffs ==
    {[ran |-> TRUE, index_ok |-> FALSE, worktree |-> <<>>, index |-> <<>>]}
    \cup [ran : {TRUE}, index_ok : {TRUE}, worktree : Reports, index : Reports]

\* list_and_choose is called with the commands and prompts
CallChooser ==
    /\ items' = find_unique_prefixes(Commands, 1, 4)
    /\ c_pc' = "prompt"
    /\ line' = NoLine
    /\ input' = <<>>
    /\ picks' = <<>>
    /\ res' = -1

\* run_add_i after init_add_i_state returned r, status being what the status
\* pass returned
Initialized(r, status, diffs) ==
    /\ a_state' = [use_color |-> r.use_color, header_color |-> r.header_color]
    /\ IF r.ret # 0
       THEN /\ a_pc' = "done"
            /\ a_res' = -1
            /\ a_first' = "none"
            /\ UNCHANGED <<a_files, a_diffs>>
            /\ UNCHANGED chooser_vars
       ELSE /\ a_pc' = "loop"
            /\ a_res' = IF status.ret < 0 THEN -1 ELSE 0
            /\ a_first' = IF status.ret < 0 THEN "failed" ELSE "ok"
            /\ a_files' = status.files
            /\ a_diffs' = diffs
            /\ CallChooser

\* run_add_i up to the first prompt
RunAddI ==
    /\ a_pc = "start"
    /\ c_pc = "start"
    /\ \E config \in Configs, tty \in BOOLEAN, diffs \in StatusDiffs :
          /\ a_config' = config
          /\ Initialized(init_add_i_state(config, tty), run_status(a_files, diffs), diffs)
    /\ UNCHANGED <<a_last, a_bye>>
    /\ UNCHANGED patch_vars

\* a line arrives at the prompt of the main loop
AddILine ==
    /\ a_pc = "loop"
    /\ ReadLine(AddILines, {<<NUL>>})

\* stdin is at its end at the prompt of the main loop
AddIEof ==
    /\ a_pc = "loop"
    /\ ChooseEof

\* no token of the line was valid
AddIRelist ==
    /\ a_pc = "loop"
    /\ Relist

\* res = commands[i]->command(&s, ps, &files, &opts), status being what
\* run_status made of the diffs
Commanded(status, diffs) ==
    /\ a_res' = status.ret
    /\ a_last' = IF status.ret < 0 THEN "failed" ELSE "ok"
    /\ a_files' = status.files
    /\ a_diffs' = diffs

\* list_and_choose has returned i = res to the main loop
AddIReturned ==
    /\ a_pc = "loop"
    /\ c_pc = "returned"
    /\ IF quits(res)
       THEN /\ a_bye' = TRUE
            /\ a_res' = 0
            /\ a_pc' = "done"
            /\ a_files' = release_file_list(a_files)
            /\ UNCHANGED <<a_last, a_diffs>>
            /\ UNCHANGED chooser_vars
       ELSE /\ IF res >= 0
               THEN \E diffs \in StatusDiffs : Commanded(run_status(a_files, diffs), diffs)
               ELSE UNCHANGED <<a_res, a_last, a_files, a_diffs>>
            /\ CallChooser
            /\ UNCHANGED <<a_pc, a_bye>>
    /\ UNCHANGED <<a_config, a_state, a_first>>
    /\ UNCHANGED patch_vars

ANext == RunAddI \/ AddILine \/ AddIEof \/ AddIRelist \/ AddIReturned

SpecAddI == Init /\ [][ANext]_vars

(***************************************************************************)
(* Properties of the reassembler (SpecReassemble).                         *)
(***************************************************************************)
RECURSIVE SumSeq(_)
SumSeq(s) == IF s = <<>> THEN 0 ELSE Head(s) + SumSeq(Tail(s))

\* the first old and the first new line of hunk k of the described file f
DescOldLine(f, k) ==
    1 + f.first + (k - 1) * f.gap + SumSeq([j \in 1..(k - 1) |-> f.hunks[j].old_count])
DescNewLine(f, k) ==
    1 + f.first + (k - 1) * f.gap + SumSeq([j \in 1..(k - 1) |-> f.hunks[j].new_count])

\* the header numbers the diff tool printed for hunk k of f
DescOldOffset(f, k) == gen_offset(DescOldLine(f, k), f.hunks[k].old_count)
DescNewOffset(f, k) == gen_offset(DescNewLine(f, k), f.hunks[k].new_count)

\* the sum of old_count - new_count over the hunks before k that are not Use
SkippedBefore(f, hs, k) ==
    SumSeq([j \in 1..(k - 1) |->
               IF hs[j].use # USE_HUNK
               THEN f.hunks[j].old_count - f.hunks[j].new_count ELSE 0])

\* hunk k as the claim says it is emitted
EmittedHunk(f, hs, k) ==
    <<"@", "@", " ", "-">> \o fmt_lu(DescOldOffset(f, k)) \o <<",">>
        \o fmt_lu(f.hunks[k].old_count) \o <<" ", "+">>
        \o fmt_lu(DescNewOffset(f, k) + SkippedBefore(f, hs, k)) \o <<",">>
        \o fmt_lu(f.hunks[k].new_count) \o <<" ", "@", "@">>
        \o gen_extra(f.hunks[k]) \o <<LF>> \o gen_body(f.hunks[k])

C2_ReassemblyIdentity ==
    (pc = "reassembled"
        /\ \A k \in 1..Len(file_diff[file_i + 1].hunk) :
              file_diff[file_i + 1].hunk[k].use = USE_HUNK)
    => buf = gen_file(gen[file_i + 1], FALSE)

\* the offsets at which the lines of the plain diff start
LineStarts == {o \in 0..(Len(plain) - 1) : o = 0 \/ plain[o] = LF}

\* the line at o begins with the bytes, and the offsets of the lines that begin
\* with "diff " and with "@@ "
LineBegins(o, bytes) ==
    /\ o + Len(bytes) <= Len(plain)
    /\ \A k \in 1..Len(bytes) : plain[o + k] = bytes[k]

DiffLines == {o \in LineStarts : LineBegins(o, <<"d", "i", "f", "f", " ">>)}
HunkLines == {o \in LineStarts : LineBegins(o, <<"@", "@", " ">>)}

\* the k-th smallest element of the set S of numbers
Nth(S, k) == CHOOSE x \in S : Cardinality({y \in S : y < x}) = k - 1

\* the smallest element of S after o, or the length of the plain diff
NextIn(S, o) ==
    IF {x \in S : x > o} = {} THEN Len(plain)
    ELSE CHOOSE x \in S : x > o /\ \A y \in S : y > o => x <= y

\* the "@@ " lines H of the block of the "diff " line d, D being the "diff "
\* lines
HunkLinesOf(D, H, d) == {o \in H : d < o /\ o < NextIn(D, d)}

\* hunk k of the file diff f is the one of the "@@ " line h: L are the starts of
\* the lines, DH those of the "diff " and "@@ " lines
HunkTiles(f, k, L, DH, h) ==
    /\ f.hunk[k].start = NextIn(L, h)
    /\ f.hunk[k].end = NextIn(DH, h)
    /\ f.hunk[k].start <= f.hunk[k].end
    /\ h = IF k = 1 THEN f.head.end ELSE f.hunk[k - 1].end

\* the file diff f is the one of the "diff " line d, whose "@@ " lines are Hd,
\* and ends at stop
FileTiles(f, L, DH, d, Hd, stop) ==
    /\ f.head.start = d
    /\ f.head.end = NextIn(DH, d)
    /\ Len(f.hunk) = Cardinality(Hd)
    /\ \A k \in 1..Len(f.hunk) : HunkTiles(f, k, L, DH, Nth(Hd, k))
    /\ stop = IF Len(f.hunk) = 0 THEN f.head.end ELSE f.hunk[Len(f.hunk)].end

\* the file diffs are those of the "diff " lines D, with the "@@ " lines H
ParseTiles(L, D, H) ==
    /\ 0 \in D
    /\ Len(file_diff) = Cardinality(D)
    /\ \A j \in 1..Len(file_diff) :
          FileTiles(file_diff[j], L, D \cup H, Nth(D, j), HunkLinesOf(D, H, Nth(D, j)),
                    IF j = Len(file_diff) THEN Len(plain) ELSE file_diff[j + 1].head.start)

\* C22: after parse_diff succeeded on a diff whose first line starts with
\* "diff ", there is one file diff per "diff " line and in it one hunk per
\* "@@ " line of its block; the head starts at the "diff " line and ends at the
\* first "@@ " line of the block or at the end of the block; a hunk starts just
\* after its header line and ends at the next "@@ " or "diff " line or at the end
\* of the buffer: head, header lines and bodies tile the buffer.
C22_ParseTiles ==
    pc \in {"parsed", "reassembled"} /\ Len(plain) > 0
    => ParseTiles(LineStarts, DiffLines, HunkLines)

\* C22: two file diffs, the second with two hunks that have a body, the last
\* one ending where the buffer ends.
C22_Witness ==
    /\ pc = "parsed"
    /\ Len(file_diff) = 2
    /\ Len(file_diff[2].hunk) = 2
    /\ file_diff[2].head.end > file_diff[2].head.start
    /\ file_diff[2].hunk[1].start < file_diff[2].hunk[1].end
    /\ file_diff[2].hunk[1].end < file_diff[2].hunk[2].start
    /\ file_diff[2].hunk[2].end = Len(plain)

(***************************************************************************)
(* Properties of the prompt loop (Spec).                                   *)
(***************************************************************************)
\* the plain diff that parse_diff captured
LoopPlain == strbuf_complete_line(gen_diff(gen, FALSE))

\* the runs of `apply --cached` for file diff i
AppliesOf(i) == {k \in 1..Len(apply_log) : apply_log[k].file = i}

\* file diff i has a hunk to be used
SomeUse(i) == \E k \in 1..Len(file_diff[i + 1].hunk) : file_diff[i + 1].hunk[k].use = USE_HUNK

\* one of the hunks hs is undecided
UndecidedIn(hs) == \E k \in 1..Len(hs) : hs[k].use = UNDECIDED_HUNK

\* the entry of apply_log for file diff i with the decisions it has now
Applied(i, failed) ==
    [file |-> i, input |-> reassemble_patch(LoopPlain, <<>>, file_diff[i + 1]),
     failed |-> failed]

\* C3, as the specification states it: when the prompt loop of a file diff ends
\* at the end of input, `apply --cached` has not run for that file diff.
C3_EofDiscards == last_exit.kind = "eof" => AppliesOf(last_exit.file) = {}

\* C3, amended: the end of input at the prompt ends the loop of the file diff
\* and changes no decision; `apply --cached` runs, on the patch reassembled from
\* the hunks answered so far, exactly when a hunk of the file diff is to be used.
C3_EofApplies ==
    [][Eof =>
        /\ file_diff' = file_diff
        /\ last_exit' = [file |-> file_i, kind |-> "eof"]
        /\ IF SomeUse(file_i)
           THEN \E failed \in BOOLEAN :
                   apply_log' = Append(apply_log, Applied(file_i, failed))
           ELSE apply_log' = apply_log]_vars

\* C3: the loop of a file diff ended at the end of input with one hunk to be
\* used and one undecided, and `apply --cached` has run for it.
C3_Witness ==
    /\ last_exit.kind = "eof"
    /\ Len(file_diff[last_exit.file + 1].hunk) = 2
    /\ file_diff[last_exit.file + 1].hunk[1].use = USE_HUNK
    /\ file_diff[last_exit.file + 1].hunk[2].use = UNDECIDED_HUNK
    /\ AppliesOf(last_exit.file) # {}

\* C4: for every file diff whose prompt loop has ended, `apply --cached` has run
\* exactly once, on the output of reassemble_patch, if a hunk of it is to be
\* used, and not at all if none is; it has not run for the other file diffs.
C4_ApplyOnce ==
    \A i \in 0..Len(file_diff) - 1 :
        IF i <= last_exit.file /\ SomeUse(i)
        THEN /\ Cardinality(AppliesOf(i)) = 1
             /\ \A k \in AppliesOf(i) : apply_log[k].input = Applied(i, FALSE).input
        ELSE AppliesOf(i) = {}

\* C4: a file diff with one hunk to be used and one to be skipped has been
\* applied, and a file diff whose single hunk was answered n has not.
C4_Witness ==
    /\ last_exit = [file |-> 1, kind |-> "decided"]
    /\ Len(file_diff[1].hunk) = 2
    /\ file_diff[1].hunk[1].use = SKIP_HUNK
    /\ file_diff[1].hunk[2].use = USE_HUNK
    /\ file_diff[2].hunk[1].use = SKIP_HUNK
    /\ Len(apply_log) = 1
    /\ apply_log[1].file = 0

\* C5: when the prompt loop of a file diff has ended through the "everything
\* decided" test, no hunk of that file diff is undecided.
C5_DecidedExit == last_exit.kind = "decided" => ~UndecidedIn(file_diff[last_exit.file + 1].hunk)

\* C5: the loop of a file diff with three hunks has ended through the test, the
\* last answer being to the first hunk after the others were decided.
C5_Witness ==
    /\ last_exit = [file |-> 0, kind |-> "decided"]
    /\ Len(file_diff[1].hunk) = 3
    /\ file_diff[1].hunk[1].use = SKIP_HUNK
    /\ file_diff[1].hunk[2].use = USE_HUNK
    /\ file_diff[1].hunk[3].use = SKIP_HUNK

\* the lines that are answers y or n
YesNoLines == {<<"y">>, <<"Y">>, <<"n">>, <<"N">>, <<"y", "e", "s">>}

\* the indices of the undecided hunks after hunk i
UndecidedAfter(hs, i) == {k \in (i + 1)..(Len(hs) - 1) : hs[k + 1].use = UNDECIDED_HUNK}

Min(S) == CHOOSE x \in S : \A y \in S : x <= y

\* the prompt for hunk index of the current file diff follows
PromptsFor(index) ==
    /\ pc' = "prompt"
    /\ file_i' = file_i
    /\ hunk_index' = index
    /\ shown' = render_hunk(plain, colored, file_diff'[file_i + 1].hunk[index + 1], 0,
                            Len(colored) # 0)

\* C6, as the specification states it: after an answer y or n that leaves an
\* undecided hunk in the file diff, the hunk prompted for next is undecided.
C6_NextUndecided ==
    [][\A answer \in YesNoLines :
          AnswerLine(answer) /\ UndecidedIn(file_diff'[file_i + 1].hunk)
          => /\ pc' = "prompt"
             /\ file_i' = file_i
             /\ file_diff'[file_i + 1].hunk[hunk_index' + 1].use = UNDECIDED_HUNK]_vars

\* C6, amended: after an answer y or n at hunk i, the next prompt is for the
\* first undecided hunk after i if there is one; if the only undecided hunks are
\* before i, it is for hunk 0, decided or not; if none is undecided the loop ends.
C6_NextPrompt ==
    [][\A answer \in YesNoLines :
          AnswerLine(answer)
          => IF UndecidedAfter(file_diff'[file_i + 1].hunk, hunk_index) # {}
             THEN PromptsFor(Min(UndecidedAfter(file_diff'[file_i + 1].hunk, hunk_index)))
             ELSE IF UndecidedIn(file_diff'[file_i + 1].hunk)
             THEN PromptsFor(0)
             ELSE last_exit' = [file |-> file_i, kind |-> "decided"]]_vars

\* C6: three hunks, the first and the last to be used, the second undecided,
\* and the prompt is for the first.
C6_Witness ==
    /\ pc = "prompt"
    /\ hunk_index = 0
    /\ Len(file_diff[file_i + 1].hunk) = 3
    /\ file_diff[file_i + 1].hunk[1].use = USE_HUNK
    /\ file_diff[file_i + 1].hunk[2].use = UNDECIDED_HUNK
    /\ file_diff[file_i + 1].hunk[3].use = USE_HUNK
    /\ err = ""
    /\ ~help

\* the decisions after an answer a (use = Use) or d (use = Skip) at hunk i as
\* the specification states them
AllRemaining(old, i, use) ==
    [k \in 1..Len(old) |->
        IF k - 1 = i \/ (k - 1 > i /\ old[k].use = UNDECIDED_HUNK) THEN use
        ELSE old[k].use]

\* the answer leaves the decisions ds in the current file diff
DecisionsBecome(ds) ==
    \A k \in 1..Len(ds) : file_diff'[file_i + 1].hunk[k].use = ds[k]

\* C7: after an answer a at hunk i, hunk i and the undecided hunks after it are
\* to be used and the other hunks keep their decision; d is the same with Skip;
\* if the loop goes on, hunk_index is 0.
C7_AllRemaining ==
    [][/\ \A answer \in {<<"a">>, <<"A">>} :
            AnswerLine(answer)
            => /\ DecisionsBecome(AllRemaining(file_diff[file_i + 1].hunk, hunk_index,
                                               USE_HUNK))
               /\ pc' = "prompt" /\ file_i' = file_i => hunk_index' = 0
       /\ \A answer \in {<<"d">>, <<"D">>} :
            AnswerLine(answer)
            => /\ DecisionsBecome(AllRemaining(file_diff[file_i + 1].hunk, hunk_index,
                                               SKIP_HUNK))
               /\ pc' = "prompt" /\ file_i' = file_i => hunk_index' = 0]_vars

\* the navigation key of the line cannot move from the current hunk
CannotMove(answer) ==
    \/ answer = <<"K">> /\ hunk_index = 0
    \/ answer = <<"J">> /\ hunk_index + 1 = Len(file_diff[file_i + 1].hunk)
    \/ /\ answer = <<"k">>
       /\ \A k \in 1..hunk_index : file_diff[file_i + 1].hunk[k].use # UNDECIDED_HUNK
    \/ /\ answer = <<"j">>
       /\ UndecidedAfter(file_diff[file_i + 1].hunk, hunk_index) = {}

\* C8: a navigation key that cannot move writes its message to stderr, changes
\* neither hunk_index nor a decision, and the same hunk is prompted for again.
C8_CannotMove ==
    [][\A answer \in {<<"K">>, <<"J">>, <<"k">>, <<"j">>} :
          AnswerLine(answer) /\ CannotMove(answer)
          => /\ err' = IF answer \in {<<"K">>, <<"k">>} THEN "No previous hunk"
                       ELSE "No next hunk"
             /\ ~help'
             /\ file_diff' = file_diff
             /\ apply_log' = apply_log
             /\ PromptsFor(hunk_index)
             /\ shown' = shown]_vars

\* C8: three undecided hunks, K at the first.
C8_Witness ==
    /\ pc = "prompt"
    /\ hunk_index = 0
    /\ err = "No previous hunk"
    /\ Len(file_diff[file_i + 1].hunk) = 3
    /\ \A k \in 1..3 : file_diff[file_i + 1].hunk[k].use = UNDECIDED_HUNK

\* C17: when a hunk header of the plain diff, or of the colored diff that was
\* captured, is no hunk header, run_add_p has returned -1 after the message of
\* parse_hunk_header, and no hunk was rendered, no prompt was written and
\* `apply --cached` was not run; the message is written for such diffs only.
C17_HeaderParseFailure ==
    /\ damage.plain \/ damage.colored
       => /\ pc = "done"
          /\ ret = -1
          /\ err \in {E_header, E_colored_header}
          /\ ~damage.colored => err = E_header
          /\ ~damage.plain => err = E_colored_header
          /\ shown = <<>>
          /\ buf = <<>>
          /\ apply_log = <<>>
          /\ last_exit.kind = "none"
    /\ err \in {E_header, E_colored_header} => damage.plain \/ damage.colored

\* C17: the colored header of the hunk of the second file diff was damaged, and
\* run_add_p returned -1 with the first file diff and its hunks parsed.
C17_Witness ==
    /\ pc = "done"
    /\ ret = -1
    /\ damage = [plain |-> FALSE, colored |-> TRUE]
    /\ err = E_colored_header
    /\ Len(file_diff) = 2
    /\ Len(file_diff[1].hunk) = 2
    /\ Len(file_diff[2].hunk) = 1
    /\ shown = <<>>

\* the file diffs after file diff i that have a hunk
LaterWithHunks(i) == {j \in (i + 1)..(Len(file_diff) - 1) : Len(file_diff[j + 1].hunk) # 0}

\* `apply --cached` runs in this step and fails
ApplyFails ==
    /\ Len(apply_log') = Len(apply_log) + 1
    /\ apply_log'[Len(apply_log')].failed

\* C18: when `apply --cached` fails for a file diff, the message is written to
\* stderr and the first hunk of the next file diff that has a hunk is prompted
\* for, and run_add_p returns 0 if there is no such file diff; when run_add_p
\* has returned after the parser, it has returned 0 and the prompt loop of
\* every file diff that has a hunk has ended.
C18_ApplyFailureContinues ==
    /\ [][ApplyFails
           => /\ apply_log'[Len(apply_log')].file = file_i
              /\ err' = E_apply
              /\ IF LaterWithHunks(file_i) = {}
                 THEN pc' = "done" /\ ret' = 0
                 ELSE /\ pc' = "prompt"
                      /\ file_i' = Min(LaterWithHunks(file_i))
                      /\ hunk_index' = 0
                      /\ shown' = render_hunk(plain, colored, file_diff[file_i' + 1].hunk[1],
                                              0, Len(colored) # 0)]_vars
    /\ [](pc = "done" /\ last_exit.kind # "none"
          => /\ ret = 0
             /\ \A i \in 0..(Len(file_diff) - 1) :
                   Len(file_diff[i + 1].hunk) # 0 => i <= last_exit.file)

\* C18: `apply --cached` failed for the first of three file diffs, the second
\* has no hunk, and the hunk of the third is prompted for.
C18_Witness ==
    /\ pc = "prompt"
    /\ Len(file_diff) = 3
    /\ Len(file_diff[2].hunk) = 0
    /\ file_i = 2
    /\ Len(apply_log) = 1
    /\ apply_log[1].file = 0
    /\ apply_log[1].failed
    /\ err = E_apply

\* the decisions old with the decision use for hunk i
OneDecision(old, i, use) ==
    [k \in 1..Len(old) |-> IF k - 1 = i THEN use ELSE old[k].use]

\* the indices of the undecided hunks before hunk i
UndecidedBefore(hs, i) == {k \in 0..(i - 1) : hs[k + 1].use = UNDECIDED_HUNK}

Max(S) == CHOOSE x \in S : \A y \in S : x >= y

\* where the navigation key first goes from the current hunk
MovesTo(first) ==
    IF first = "K" THEN (IF hunk_index > 0 THEN hunk_index - 1 ELSE hunk_index)
    ELSE IF first = "J"
    THEN (IF hunk_index + 1 < Len(file_diff[file_i + 1].hunk) THEN hunk_index + 1
          ELSE hunk_index)
    ELSE IF first = "k"
    THEN (IF UndecidedBefore(file_diff[file_i + 1].hunk, hunk_index) # {}
          THEN Max(UndecidedBefore(file_diff[file_i + 1].hunk, hunk_index))
          ELSE hunk_index)
    ELSE (IF UndecidedAfter(file_diff[file_i + 1].hunk, hunk_index) # {}
          THEN Min(UndecidedAfter(file_diff[file_i + 1].hunk, hunk_index))
          ELSE hunk_index)

\* C20: a line that starts with y or Y makes the decision of the current hunk
\* Use, one that starts with n or N makes it Skip, whatever it was, and the
\* decisions of the other hunks and the other file diffs stay; a line that
\* starts with j, J, k or K changes no decision, and each of the four keys
\* moves as its own case says.
C20_UseSkipFrame ==
    [][\A answer \in {l \in AnswerLines : Len(l) > 0} :
          answer[1] \in {"y", "Y", "n", "N", "j", "J", "k", "K"} /\ AnswerLine(answer)
          => IF answer[1] \in {"y", "Y", "n", "N"}
             THEN /\ DecisionsBecome(OneDecision(file_diff[file_i + 1].hunk, hunk_index,
                                                 IF answer[1] \in {"y", "Y"} THEN USE_HUNK
                                                 ELSE SKIP_HUNK))
                  /\ \A i \in 1..Len(file_diff) :
                        i # file_i + 1 => file_diff'[i] = file_diff[i]
             ELSE /\ file_diff' = file_diff
                  /\ apply_log' = apply_log
                  /\ pc' = "prompt"
                  /\ file_i' = file_i
                  /\ hunk_index' = MovesTo(answer[1])]_vars

\* C20: the first hunk was answered y and the second n, the third is undecided,
\* and the prompt is for the first hunk again.
C20_Witness ==
    /\ pc = "prompt"
    /\ hunk_index = 0
    /\ Len(file_diff[file_i + 1].hunk) = 3
    /\ file_diff[file_i + 1].hunk[1].use = USE_HUNK
    /\ file_diff[file_i + 1].hunk[2].use = SKIP_HUNK
    /\ file_diff[file_i + 1].hunk[3].use = UNDECIDED_HUNK
    /\ err = ""
    /\ ~help

\* the prompt lists the navigation key
Listed(key) == \E q \in 1..(Len(buf) - 1) : buf[q] = "," /\ buf[q + 1] = key

\* the lines that are one navigation key
NavigationLines == {<<"k">>, <<"K">>, <<"j">>, <<"J">>}

\* C21: at every prompt ,k is listed iff a hunk before the current one is
\* undecided, ,K iff hunk_index > 0, ,j iff a hunk after the current one is
\* undecided, ,J iff hunk_index + 1 < hunk_nr; a navigation key that is listed
\* moves hunk_index and writes nothing to stderr, one that is not listed
\* leaves hunk_index and writes its message.
C21_PromptAgrees ==
    /\ [](pc = "prompt"
          => /\ Listed("k") <=> UndecidedBefore(file_diff[file_i + 1].hunk, hunk_index) # {}
             /\ Listed("K") <=> hunk_index > 0
             /\ Listed("j") <=> UndecidedAfter(file_diff[file_i + 1].hunk, hunk_index) # {}
             /\ Listed("J") <=> hunk_index + 1 < Len(file_diff[file_i + 1].hunk))
    /\ [][\A answer \in NavigationLines :
            AnswerLine(answer)
            => /\ pc' = "prompt"
               /\ file_i' = file_i
               /\ IF Listed(answer[1])
                  THEN /\ hunk_index' # hunk_index
                       /\ hunk_index' = MovesTo(answer[1])
                       /\ err' = ""
                  ELSE /\ hunk_index' = hunk_index
                       /\ err' = IF answer[1] \in {"k", "K"} THEN "No previous hunk"
                                 ELSE "No next hunk"]_vars

\* C21: the prompt for the second of two hunks lists ,K only, and J was
\* answered with its message.
C21_Witness ==
    /\ pc = "prompt"
    /\ hunk_index = 1
    /\ Len(file_diff[file_i + 1].hunk) = 2
    /\ buf = <<",", "K">>
    /\ err = "No next hunk"

\* the number of undecided hunks of the hunks hs
UndecidedCount(hs) == Cardinality({k \in 1..Len(hs) : hs[k].use = UNDECIDED_HUNK})

DecidingLines == {<<"y">>, <<"n">>, <<"a">>, <<"d">>}

\* the hunks and hunk_index at the top of the loop after the loop body had
\* the effect e
TopAfter(e) == [hunk |-> e.hunk, index |-> wrap_index(e.hunk, e.index)]

\* the hunks and hunk_index at the top of the loop after one more line of
\* DecidingLines was answered at hunk index
AfterDeciding(hunk, index) ==
    {TopAfter(e) : e \in {answer_effect(hunk, index, l) : l \in DecidingLines}}

\* the largest number of lines of DecidingLines that can be answered from the
\* top of the loop with hunk index current before the loop finds everything
\* decided; fuel + 1 if more than fuel lines can be answered
RECURSIVE AnswersLeft(_, _, _)
AnswersLeft(hunk, index, fuel) ==
    IF everything_decided(hunk, index) THEN 0
    ELSE IF fuel = 0 THEN 1
    ELSE 1 + Max({AnswersLeft(t.hunk, t.index, fuel - 1) : t \in AfterDeciding(hunk, index)})

\* AnswersLeft for the current hunk of the hunks hs, the fuel being twice their
\* number
LeftHere(hs, index) == AnswersLeft(hs, index, 2 * Len(hs))

\* C26: at a prompt, whichever of the lines y, n, a and d follow, the loop
\* finds everything decided after at most 2 * hunk_count of them: at most that
\* many can be answered before it does, counted over the hunks and the current
\* hunk that such a line leaves at the top of the loop; the next prompt for the
\* file is at those, and without a next prompt for the file the loop was left
\* because everything was decided.
C26_DecidingTerminates ==
    /\ [](pc = "prompt"
          => LeftHere(file_diff[file_i + 1].hunk, hunk_index)
                <= 2 * Len(file_diff[file_i + 1].hunk))
    /\ [][\A answer \in DecidingLines :
             AnswerLine(answer)
             => IF pc' = "prompt" /\ file_i' = file_i
                THEN [hunk |-> file_diff'[file_i + 1].hunk, index |-> hunk_index']
                        = TopAfter(answer_effect(file_diff[file_i + 1].hunk, hunk_index,
                                                 answer))
                ELSE last_exit' = [file |-> file_i, kind |-> "decided"]]_vars

\* C26: the prompt is at the second of three hunks, which is decided, the other
\* two are not: three lines y take the loop to its end, over the wrap to the
\* first hunk.
C26_Witness ==
    /\ pc = "prompt"
    /\ hunk_index = 1
    /\ Len(file_diff[file_i + 1].hunk) = 3
    /\ file_diff[file_i + 1].hunk[1].use = UNDECIDED_HUNK
    /\ file_diff[file_i + 1].hunk[2].use # UNDECIDED_HUNK
    /\ file_diff[file_i + 1].hunk[3].use = UNDECIDED_HUNK
    /\ LeftHere(file_diff[file_i + 1].hunk, hunk_index) = 3

\* hunk_index at the end of the loop body for each line that can be answered
\* at hunk index of the hunks hs
IndexAfter(hs, index) == {answer_effect(hs, index, l).index : l \in AnswerLines}

\* C27: a file diff that is prompted for has a hunk, and the hunk that was
\* rendered and that the answer reads and decides is one of its hunks; the body
\* of the loop leaves hunk_index at a hunk or at hunk_count, and the top of the
\* loop makes it a hunk again.
C27_IndexInRange ==
    pc = "prompt"
    => /\ Len(file_diff[file_i + 1].hunk) >= 1
       /\ hunk_index \in 0..(Len(file_diff[file_i + 1].hunk) - 1)
       /\ \A index \in IndexAfter(file_diff[file_i + 1].hunk, hunk_index) :
             /\ index \in 0..Len(file_diff[file_i + 1].hunk)
             /\ wrap_index(file_diff[file_i + 1].hunk, index)
                   \in 0..(Len(file_diff[file_i + 1].hunk) - 1)

\* C27: the prompt is at the first of three hunks, of which only the second
\* is undecided, and an answer leaves hunk_index at 3, which the top of the
\* loop makes 0.
C27_Witness ==
    /\ pc = "prompt"
    /\ hunk_index = 0
    /\ Len(file_diff[file_i + 1].hunk) = 3
    /\ file_diff[file_i + 1].hunk[1].use # UNDECIDED_HUNK
    /\ file_diff[file_i + 1].hunk[2].use = UNDECIDED_HUNK
    /\ file_diff[file_i + 1].hunk[3].use # UNDECIDED_HUNK
    /\ 3 \in IndexAfter(file_diff[file_i + 1].hunk, hunk_index)
    /\ wrap_index(file_diff[file_i + 1].hunk, 3) = 0

(***************************************************************************)
(* Properties of the chooser (SpecChooser).                                *)
(***************************************************************************)
\* the token is made up of decimal digits
AllDigits(token) == Len(token) > 0 /\ \A k \in 1..Len(token) : isdigit(token[k])

\* the number that the digits of the token write
RECURSIVE DecimalValue(_)
DecimalValue(token) ==
    IF token = <<>> THEN 0
    ELSE 10 * DecimalValue(SubSeq(token, 1, Len(token) - 1)) + DigitVal(token[Len(token)])

\* token k of the line selected item i (0-based) and the chooser returned it
SelectedBy(k, i) == picks[k].index = i /\ k = Len(picks) /\ res = i /\ c_pc = "returned"

\* token k of the line was invalid
InvalidToken(k) == picks[k].index < 0 \/ picks[k].index >= Len(items)

\* the items whose name starts with the token
StartingWith(token) == {i \in 1..Len(items) : str_starts_with(items[i].name, token)}

\* C9: a token made up of decimal digits that write n selects item n (the
\* chooser returns n - 1) if 1 <= n <= nr and is invalid otherwise, whatever
\* the names of the items are.
C9_NumericTokens ==
    \A k \in 1..Len(picks) :
        AllDigits(picks[k].token)
        => IF 1 <= DecimalValue(picks[k].token) /\ DecimalValue(picks[k].token) <= Len(items)
           THEN SelectedBy(k, DecimalValue(picks[k].token) - 1)
           ELSE InvalidToken(k)

\* C10: a token that is not made up of decimal digits selects item i if item i
\* is the only item whose name starts with the token, and is invalid if no name
\* or more than one name starts with it.
C10_PrefixTokens ==
    \A k \in 1..Len(picks) :
        ~AllDigits(picks[k].token)
        => IF Cardinality(StartingWith(picks[k].token)) = 1
           THEN \A i \in StartingWith(picks[k].token) : SelectedBy(k, i - 1)
           ELSE InvalidToken(k)

\* C10: of the names st, ss and t, the token s is the start of two and is
\* invalid, and the token t after it selects the third item.
C10_Witness ==
    /\ c_pc = "returned"
    /\ Len(items) = 3
    /\ line.text = <<"s", ",", "t">>
    /\ picks = <<[token |-> <<"s">>, index |-> -1], [token |-> <<"t">>, index |-> 2]>>
    /\ res = 2

\* the tokens of the line from byte k on, cur being the token that has begun:
\* the runs of bytes between separators, the empty ones left out
RECURSIVE LineTokens(_, _, _)
LineTokens(text, k, cur) ==
    IF k > Len(text) THEN (IF cur = <<>> THEN <<>> ELSE <<cur>>)
    ELSE IF text[k] \in Separators
    THEN (IF cur = <<>> THEN <<>> ELSE <<cur>>) \o LineTokens(text, k + 1, <<>>)
    ELSE LineTokens(text, k + 1, Append(cur, text[k]))

\* the tokens of the line read last
TokensRead == LineTokens(line.text, 1, <<>>)

\* the index that list_and_choose gives to a token
IndexOf(token) ==
    IF numeric_index(token, 0, Len(token), strtoul(token, 0)) >= 0
    THEN numeric_index(token, 0, Len(token), strtoul(token, 0))
    ELSE find_unique(token, items)

ValidToken(token) == IndexOf(token) >= 0 /\ IndexOf(token) < Len(items)

\* the tokens up to the first valid one, that one included, with their indexes
RECURSIVE UpToFirstValid(_)
UpToFirstValid(tokens) ==
    IF tokens = <<>> THEN <<>>
    ELSE IF ValidToken(Head(tokens))
    THEN <<[token |-> Head(tokens), index |-> IndexOf(Head(tokens))]>>
    ELSE <<[token |-> Head(tokens), index |-> IndexOf(Head(tokens))]>>
         \o UpToFirstValid(Tail(tokens))

\* a line was read that is not empty after the trim
LineRead ==
    /\ c_pc \in {"read", "returned"}
    /\ line # NoLine
    /\ \E k \in 1..Len(line.text) : ~isspace(line.text[k])

\* C11: of the tokens of a line the chooser looks at those up to the first valid
\* one, says Huh for each invalid one before it, in order, and returns the index
\* of the valid one; if no token is valid it returns nothing and reads again.
C11_FirstValidToken ==
    LineRead
    => /\ picks = UpToFirstValid(TokensRead)
       /\ IF \E k \in 1..Len(TokensRead) : ValidToken(TokensRead[k])
          THEN c_pc = "returned" /\ res = picks[Len(picks)].index
          ELSE c_pc = "read" /\ res = -1

\* C12: the chooser returns -2 at the end of the input and -1 on a line that is
\* empty after the trim, it returns neither for a line with a valid token, and
\* what it returns otherwise is the index of an item.
C12_Sentinels ==
    /\ c_pc = "returned" => res \in {-2, -1} \cup (0..(Len(items) - 1))
    /\ c_pc = "returned" /\ line = NoLine => res = -2
    /\ c_pc \in {"read", "returned"} /\ line # NoLine
       => /\ res # -2
          /\ ~LineRead => c_pc = "returned" /\ res = -1
          /\ (\E k \in 1..Len(TokensRead) : ValidToken(TokensRead[k]))
             => c_pc = "returned" /\ res >= 0
          /\ res = -1 /\ c_pc = "returned" => ~LineRead

\* C12: a line of blanks has ended the chooser with -1.
C12_Witness ==
    /\ c_pc = "returned"
    /\ line.text = <<" ", " ">>
    /\ res = -1
    /\ picks = <<>>

\* the names of the items
ItemsNamed(names) ==
    /\ Len(items) = Len(names)
    /\ \A k \in 1..Len(names) : items[k].name = names[k]

\* the line stat was read with the commands status, stage and stash
StatRead ==
    /\ c_pc \in {"read", "returned"}
    /\ ItemsNamed(ScenarioS6)
    /\ line.text = <<"s", "t", "a", "t">>

\* C13, as the specification states it: with the commands status, stage and
\* stash the line stat selects nothing, Huh (stat)? is said and the chooser
\* reads again.
C13_StatInvalid ==
    StatRead
    => /\ c_pc = "read"
       /\ res = -1
       /\ picks = <<[token |-> <<"s", "t", "a", "t">>, index |-> -1]>>

\* C13, amended: with the commands status, stage and stash the line stat
\* selects status, the only command whose name starts with stat: the chooser
\* returns 0 and says no Huh.
C13_StatSelectsStatus ==
    StatRead
    => /\ c_pc = "returned"
       /\ res = 0
       /\ picks = <<[token |-> <<"s", "t", "a", "t">>, index |-> 0]>>

\* C13: the line stat was read with the commands status, stage and stash, and
\* the chooser has returned.
C13_Witness == StatRead /\ c_pc = "returned" /\ Len(picks) = 1

\* the validity filter on the first L bytes of a name, as the specification
\* words it
FilterPasses(name, L) ==
    /\ L <= Len(name)
    /\ \A k \in 1..L : name[k] \notin {" ", "\t", "\r", LF, ","}
    /\ name[1] # "-"
    /\ ~\E d \in 0..9 : name[1] = DigitChars[d + 1]
    /\ ~(L = 1 /\ name[1] \in {"*", "?"})

\* the lengths L in lo..hi for which the first L bytes of name i pass the filter
\* and are the start of no other name
GoodLengths(names, i, lo, hi) ==
    {L \in lo..hi :
        /\ FilterPasses(names[i], L)
        /\ \A j \in 1..Len(names) :
              j # i => ~(Len(names[j]) >= L /\ SubSeq(names[j], 1, L) = SubSeq(names[i], 1, L))}

\* the table gives every name its smallest good length, or 0
TableFor(names, table, lo, hi) ==
    /\ Len(table) = Len(names)
    /\ \A i \in 1..Len(names) :
          /\ table[i].name = names[i]
          /\ table[i].prefix_length =
                IF GoodLengths(names, i, lo, hi) = {} THEN 0
                ELSE Min(GoodLengths(names, i, lo, hi))

\* the names of the items
NamesOf(table) == [k \in 1..Len(table) |-> table[k].name]

\* the largest bound on the prefix length that is looked at
MaxPrefix == 4

\* C16: the prefix_length of every item is the smallest L in min..max for which
\* the first L bytes of its name pass the validity filter and are the start of
\* no other name, and 0 if there is no such L: for the bounds 1 and 4 that the
\* chooser uses, and, looked at before the first line is read, for the table of
\* the same names under any other bounds.
C16_PrefixTable ==
    c_pc # "start"
    => /\ TableFor(NamesOf(items), items, 1, 4)
       /\ line = NoLine
          => \A lo \in 1..MaxPrefix : \A hi \in lo..MaxPrefix :
                TableFor(NamesOf(items), find_unique_prefixes(NamesOf(items), lo, hi), lo, hi)
       /\ \A i \in 1..Len(items) :
             items[i].prefix_length > 0
             => /\ FilterPasses(items[i].name, items[i].prefix_length)
                /\ \A j \in 1..Len(items) :
                      j # i => ~str_starts_with(items[j].name,
                                                SubSeq(items[i].name, 1, items[i].prefix_length))

\* C16: of the names *, -s, ?t and s t the first two have no prefix, ?t has the
\* prefix ?t and s t the prefix s.
C16_Witness ==
    /\ c_pc = "prompt"
    /\ NamesOf(items) = FilterNames
    /\ items[1].prefix_length = 0
    /\ items[2].prefix_length = 0
    /\ items[3].prefix_length = 2
    /\ items[4].prefix_length = 1

\* the unique prefix of item k
PrefixOf(k) == SubSeq(items[k].name, 1, items[k].prefix_length)

\* C24: a line that is the unique prefix of item i, for an item whose
\* prefix_length is not 0, is looked at as one token, is not read as a number,
\* and makes the chooser return i.
C24_PrefixRoundTrip ==
    \A k \in 1..Len(items) :
        /\ items[k].prefix_length > 0
        /\ c_pc \in {"read", "returned"}
        /\ line.text = PrefixOf(k)
        => /\ c_pc = "returned"
           /\ res = k - 1
           /\ picks = <<[token |-> PrefixOf(k), index |-> k - 1]>>

\* C24: the line stag has selected stage of status, stage and stash.
C24_Witness ==
    /\ c_pc = "returned"
    /\ ItemsNamed(ScenarioS6)
    /\ items[2].prefix_length = 4
    /\ line.text = <<"s", "t", "a", "g">>
    /\ res = 1

(***************************************************************************)
(* Properties of the main loop (SpecAddI).                                 *)
(***************************************************************************)
\* C14: when list_and_choose returns to the main loop, the loop ends, Bye. is
\* printed and run_add_i returns 0 if what it returned is the quit sentinel;
\* after an empty line or a command, failed or not, the list is shown and
\* prompted for again; the loop ends in no other way.
C14_MainLoop ==
    [][/\ AddIReturned
          => IF res = -2
             THEN a_pc' = "done" /\ a_bye' /\ a_res' = 0
             ELSE a_pc' = "loop" /\ c_pc' = "prompt" /\ ~a_bye' /\ items' = items
       /\ a_pc = "loop" /\ a_pc' = "done" => c_pc = "returned" /\ res = -2]_vars

\* C14: the command has failed and the main loop prompts again.
C14_Witness ==
    /\ a_pc = "loop"
    /\ a_last = "failed"
    /\ c_pc = "prompt"
    /\ ~a_bye

\* C15: when the status pass before the main loop has failed, what run_add_i
\* returns is not 0.
C15_InitialStatusFailure == a_pc = "done" /\ a_first = "failed" => a_res # 0

\* C19: with a malformed value of color.interactive.header run_add_i is done
\* with a return value that is not 0 and the command list was never prompted for.
C19_MalformedColorFatal ==
    a_pc # "start" /\ a_config.header = "malformed"
    => a_pc = "done" /\ a_res # 0 /\ c_pc = "start"

\* the value of a byte of a path
ByteValue(c) == IF c = "/" THEN 47 ELSE IF c = "a" THEN 97 ELSE 98

\* path p1 comes before path p2 in byte order
PathLess(p1, p2) ==
    \E k \in 1..(Len(p2)) :
        /\ \A j \in 1..(k - 1) : j <= Len(p1) /\ p1[j] = p2[j]
        /\ \/ Len(p1) = k - 1
           \/ Len(p1) >= k /\ ByteValue(p1[k]) < ByteValue(p2[k])

\* the paths that a diff reported
PathsOf(report) == {report[k] : k \in 1..Len(report)}

\* C23: after a status pass the file list holds the paths that the diff of the
\* worktree or the diff of the index reported in this pass, in strictly
\* ascending byte order (so each once, and none of an earlier pass); the
\* worktree side of an entry is seen iff the diff of the worktree reported its
\* path, the index side iff the diff of the index did; a pass that cannot read
\* the index leaves the list empty.
C23_FileList ==
    a_pc = "loop" /\ a_diffs.ran
    => IF ~a_diffs.index_ok THEN a_files = <<>>
       ELSE /\ {a_files[k].name : k \in 1..Len(a_files)}
                 = PathsOf(a_diffs.worktree) \cup PathsOf(a_diffs.index)
            /\ \A k \in 1..(Len(a_files) - 1) :
                  PathLess(a_files[k].name, a_files[k + 1].name)
            /\ \A k \in 1..Len(a_files) :
                  /\ a_files[k].worktree.seen <=> a_files[k].name \in PathsOf(a_diffs.worktree)
                  /\ a_files[k].index.seen <=> a_files[k].name \in PathsOf(a_diffs.index)

\* C23: the status command ran after the first status pass; the diff of the
\* worktree reported a/b, the diff of the index a and a/b, and the list holds a
\* before a/b.
C23_Witness ==
    /\ a_pc = "loop"
    /\ a_first = "ok"
    /\ a_last = "ok"
    /\ a_diffs.worktree = <<<<"a", "/", "b">>>>
    /\ a_diffs.index = <<<<"a">>, <<"a", "/", "b">>>>
    /\ Len(a_files) = 2
    /\ a_files[1].name = <<"a">>
    /\ ~a_files[1].worktree.seen
    /\ a_files[1].index.seen
    /\ a_files[2].worktree.seen
    /\ a_files[2].index.seen
====
